---- MODULE Spec2Model ----
(***************************************************************************)
(* A model of the Toon parsing engine (packages/core): the line            *)
(* classifier and block parser, the AST walker and the AST diagnostic      *)
(* validator.  Strings are sequences of one-character strings; indices     *)
(* into strings and line arrays are 0-based as in the source.              *)
(***************************************************************************)
EXTENDS Integers, Sequences, FiniteSets, TLC

VARIABLES lines, pc, lineIndex, children, consumed, ast, visited, dispatched, diagnostics,
          position, hover, definition, request, serialized, reparsed,
          events, listeners,
          server, openDocument, objects, documentCache, documentSettings, requestCount,
          replied, pending, answer, validation

\* The last language-server request handled and the results of the requests.
requestVars == <<position, hover, definition, request>>

\* The text a parsed document was serialized to and the parse of that text.
roundTripVars == <<serialized, reparsed>>

\* The events emitted by the parse call, in order, and the event names whose
\* registered listener throws.
eventVars == <<events, listeners>>

\* The language server for one document URI: which server it is, the open
\* TextDocument object (0 when closed), the text of every TextDocument object
\* created so far, the AST cache entry, the settings request held for the
\* URI (0 when none), the number of settings requests sent, the requests the
\* client has replied to, the validations waiting for a reply, the cache
\* entry the last hover or definition request was answered from, and what
\* the last validation returned.
serverVars == <<server, openDocument, objects, documentCache, documentSettings,
                requestCount, replied, pending, answer, validation>>

vars == <<lines, pc, lineIndex, children, consumed, ast, visited, dispatched, diagnostics,
          position, hover, definition, request, serialized, reparsed,
          events, listeners,
          server, openDocument, objects, documentCache, documentSettings, requestCount,
          replied, pending, answer, validation>>

\* ------------------------------------------------------------------------
\* Bounds of the model
\* ------------------------------------------------------------------------

\* Longest document, in lines, drawn from the general line pool.
MaxLines == 3

\* Deepest indentation, in spaces, of a generated line.
MaxIndent == 2

\* How many more lines a document drawn from the block line pool may have.
BlockExtraLines == 2

\* How many times the document of the language server is opened.
MaxOpens == 2

\* How many settings requests the language server sends.
MaxRequests == 2

\* ------------------------------------------------------------------------
\* Character classes of the regular expressions and of String.trim
\* ------------------------------------------------------------------------

Whitespace == {" ", "\t"}

Letters == {"a", "b", "c", "d", "e", "f", "g", "h", "i", "j", "k", "l", "m",
            "n", "o", "p", "q", "r", "s", "t", "u", "v", "w", "x", "y", "z",
            "A", "B", "C", "D", "E", "F", "G", "H", "I", "J", "K", "L", "M",
            "N", "O", "P", "Q", "R", "S", "T", "U", "V", "W", "X", "Y", "Z"}

Digits == {"0", "1", "2", "3", "4", "5", "6", "7", "8", "9"}

IdentStart == Letters \cup {"_"}

IdentChar == Letters \cup Digits \cup {"_"}

DigitValue(c) ==
    CASE c = "0" -> 0 [] c = "1" -> 1 [] c = "2" -> 2 [] c = "3" -> 3
      [] c = "4" -> 4 [] c = "5" -> 5 [] c = "6" -> 6 [] c = "7" -> 7
      [] c = "8" -> 8 [] c = "9" -> 9

\* ------------------------------------------------------------------------
\* String primitives (String.prototype.*), 0-based
\* ------------------------------------------------------------------------

Min(S) == CHOOSE x \in S : \A y \in S : x <= y

\* s.charAt(i): the empty string past the end
charAt(s, i) == IF i >= 0 /\ i < Len(s) THEN s[i + 1] ELSE ""

\* s.substring(a, b)
substring(s, a, b) == SubSeq(s, a + 1, b)

\* s.substring(a)
substringFrom(s, a) == SubSeq(s, a + 1, Len(s))

\* s.indexOf(sub, from); -1 when absent
indexOf(s, sub, from) ==
    LET f == IF from < 0 THEN 0 ELSE IF from > Len(s) THEN Len(s) ELSE from
        hits == {i \in f..(Len(s) - Len(sub)) : SubSeq(s, i + 1, i + Len(sub)) = sub}
    IN  IF hits = {} THEN -1 ELSE Min(hits)

\* s.includes(c)
includes(s, c) == \E i \in 1..Len(s) : s[i] = c

\* index of the first character at or after i that is not in class C
span(s, i, C) ==
    CHOOSE j \in i..Len(s) :
        /\ \A k \in (i + 1)..j : s[k] \in C
        /\ (j = Len(s) \/ s[j + 1] \notin C)

\* s.trim()
trim(s) ==
    LET a == span(s, 0, Whitespace)
    IN  IF a = Len(s) THEN <<>>
        ELSE LET b == CHOOSE j \in (a + 1)..Len(s) :
                          /\ s[j] \notin Whitespace
                          /\ \A k \in (j + 1)..Len(s) : s[k] \in Whitespace
             IN  SubSeq(s, a + 1, b)

\* s.split(c) for a one-character separator
RECURSIVE split(_, _)
split(s, c) ==
    LET at(i) ==
            IF i = -1 THEN <<s>>
            ELSE <<substring(s, 0, i)>> \o split(substringFrom(s, i + 1), c)
    IN  at(indexOf(s, <<c>>, 0))

\* parseInt(digits, 10) of a non-empty run of decimal digits
RECURSIVE parseInt(_)
parseInt(ds) ==
    IF Len(ds) = 0 THEN 0
    ELSE 10 * parseInt(SubSeq(ds, 1, Len(ds) - 1)) + DigitValue(ds[Len(ds)])

\* ------------------------------------------------------------------------
\* AST construction helpers
\* ------------------------------------------------------------------------

createPosition(line, character) == [line |-> line, character |-> character]

createRange(startLine, startCharacter, endLine, endCharacter) ==
    [start |-> createPosition(startLine, startCharacter),
     end |-> createPosition(endLine, endCharacter)]

\* The results of the tryParse* methods: a node with the number of lines it
\* consumed, null, or an exception leaving the method.
NullResult == [kind |-> "null"]

ThrowResult == [kind |-> "throw"]

NodeResult(node, linesConsumed) ==
    [kind |-> "node", node |-> node, linesConsumed |-> linesConsumed]

\* A reference to a node, as the parent property holds one: the node's type
\* and range, which no two nodes of one tree share.
NodeRef(node) == [type |-> node.type, range |-> node.range]

\* child.parent = parent
setParent(child, parent) ==
    [f \in DOMAIN child \cup {"parent"} |->
        IF f = "parent" THEN NodeRef(parent) ELSE child[f]]

\* The parent loops leaving every parent property unset.
adopt_Nothing(node, field) == node

\* The loops "for (const child of ...) child.parent = node" that follow the
\* construction of a node: the node, with the parent of every node of one of
\* its sequences set to it.
adopt(node, field) ==
    [node EXCEPT ![field] = [i \in 1..Len(@) |-> setParent(@[i], node)]]

createEmptyNode(lineNumber, lineLength) ==
    [type |-> "empty", range |-> createRange(lineNumber, 0, lineNumber, lineLength)]

getIndentLevel(line) == span(line, 0, Whitespace)

\* The common prefix ^(\s*)([a-zA-Z_][a-zA-Z0-9_]*)\[(\d+)\] of both array
\* patterns: whether it matches, its groups, and the index after "]".
matchArrayPrefix(line) ==
    LET groups(nameStart, nameEnd, sizeEnd) ==
            IF /\ charAt(line, nameStart) \in IdentStart
               /\ charAt(line, nameEnd) = "["
               /\ nameEnd + 1 <= Len(line)
               /\ sizeEnd > nameEnd + 1
               /\ charAt(line, sizeEnd) = "]"
            THEN [ok |-> TRUE,
                  indent |-> substring(line, 0, nameStart),
                  name |-> substring(line, nameStart, nameEnd),
                  sizeStr |-> substring(line, nameEnd + 1, sizeEnd),
                  after |-> sizeEnd + 1]
            ELSE [ok |-> FALSE]
        name(nameStart, nameEnd) ==
            groups(nameStart, nameEnd, span(line, nameEnd + 1, Digits))
        indent(nameStart) == name(nameStart, span(line, nameStart, IdentChar))
    IN  indent(span(line, 0, Whitespace))

\* ------------------------------------------------------------------------
\* Toon: key-value pairs and arrays
\* ------------------------------------------------------------------------

\* tryParseKeyValuePair keeping the whitespace around the value.
tryParseKeyValuePair_Untrimmed(line, lineNumber) ==
    LET pair(colonIndex, key, value, keyStartChar) ==
            [type |-> "key-value-pair",
             key |-> key,
             keyRange |-> createRange(lineNumber, keyStartChar,
                                      lineNumber, keyStartChar + Len(key)),
             value |-> value,
             valueRange |-> createRange(lineNumber, colonIndex + 1,
                                        lineNumber, Len(line)),
             colonPosition |-> colonIndex,
             range |-> createRange(lineNumber, 0, lineNumber, Len(line))]
        parts(colonIndex, key, value) ==
            NodeResult(pair(colonIndex, key, value, indexOf(line, key, 0)), 1)
        found(colonIndex, bracketIndex) ==
            IF colonIndex = -1 THEN NullResult
            ELSE IF bracketIndex # -1 /\ bracketIndex < colonIndex THEN NullResult
            ELSE parts(colonIndex,
                       trim(substring(line, 0, colonIndex)),
                       substringFrom(line, colonIndex + 1))
    IN  found(indexOf(line, <<":">>, 0), indexOf(line, <<"[">>, 0))

\* tryParseKeyValuePair without the test for a bracket before the colon.
tryParseKeyValuePair_AnyBracket(line, lineNumber) ==
    LET pair(colonIndex, key, value, keyStartChar, valueStartChar) ==
            [type |-> "key-value-pair",
             key |-> key,
             keyRange |-> createRange(lineNumber, keyStartChar,
                                      lineNumber, keyStartChar + Len(key)),
             value |-> value,
             valueRange |-> createRange(lineNumber, valueStartChar,
                                        lineNumber, valueStartChar + Len(value)),
             colonPosition |-> colonIndex,
             range |-> createRange(lineNumber, 0, lineNumber, Len(line))]
        parts(colonIndex, key, value) ==
            NodeResult(
                pair(colonIndex, key, value,
                     indexOf(line, key, 0),
                     IF Len(value) > 0
                     THEN indexOf(line, value, colonIndex) ELSE colonIndex + 1),
                1)
        found(colonIndex) ==
            IF colonIndex = -1 THEN NullResult
            ELSE parts(colonIndex,
                       trim(substring(line, 0, colonIndex)),
                       trim(substringFrom(line, colonIndex + 1)))
    IN  found(indexOf(line, <<":">>, 0))

\* Toon.tryParseKeyValuePair
tryParseKeyValuePair(line, lineNumber) ==
    LET pair(colonIndex, key, value, keyStartChar, valueStartChar) ==
            [type |-> "key-value-pair",
             key |-> key,
             keyRange |-> createRange(lineNumber, keyStartChar,
                                      lineNumber, keyStartChar + Len(key)),
             value |-> value,
             valueRange |-> createRange(lineNumber, valueStartChar,
                                        lineNumber, valueStartChar + Len(value)),
             colonPosition |-> colonIndex,
             range |-> createRange(lineNumber, 0, lineNumber, Len(line))]
        parts(colonIndex, key, value) ==
            NodeResult(
                pair(colonIndex, key, value,
                     indexOf(line, key, 0),
                     IF Len(value) > 0
                     THEN indexOf(line, value, colonIndex) ELSE colonIndex + 1),
                1)
        found(colonIndex, bracketIndex) ==
            IF colonIndex = -1 THEN NullResult
            ELSE IF bracketIndex # -1 /\ bracketIndex < colonIndex THEN NullResult
            ELSE parts(colonIndex,
                       trim(substring(line, 0, colonIndex)),
                       trim(substringFrom(line, colonIndex + 1)))
    IN  found(indexOf(line, <<":">>, 0), indexOf(line, <<"[">>, 0))

\* parseValueParts not stepping over the comma between two parts.
RECURSIVE parseValueParts_NoSeparator(_, _, _)
parseValueParts_NoSeparator(valueParts, lineNumber, currentPos) ==
    IF Len(valueParts) = 0 THEN <<>>
    ELSE LET valueNode(trimmedValue, valueStartChar) ==
                 [type |-> "value",
                  value |-> trimmedValue,
                  range |-> createRange(lineNumber, valueStartChar,
                                        lineNumber, valueStartChar + Len(trimmedValue))]
             part(valuePart, trimmedValue) ==
                 <<valueNode(trimmedValue,
                             currentPos + indexOf(valuePart, trimmedValue, 0))>>
                 \o parseValueParts_NoSeparator(Tail(valueParts), lineNumber,
                                                currentPos + Len(valuePart))
         IN  part(Head(valueParts), trim(Head(valueParts)))

\* The loop over the comma-separated parts of a value list, the same in
\* tryParseSimpleArray and parseDataRow: one Value node per part, located by
\* the running position currentPos.
RECURSIVE parseValueParts(_, _, _)
parseValueParts(valueParts, lineNumber, currentPos) ==
    IF Len(valueParts) = 0 THEN <<>>
    ELSE LET valueNode(trimmedValue, valueStartChar) ==
                 [type |-> "value",
                  value |-> trimmedValue,
                  range |-> createRange(lineNumber, valueStartChar,
                                        lineNumber, valueStartChar + Len(trimmedValue))]
             part(valuePart, trimmedValue) ==
                 <<valueNode(trimmedValue,
                             currentPos + indexOf(valuePart, trimmedValue, 0))>>
                 \o parseValueParts(Tail(valueParts), lineNumber,
                                    currentPos + Len(valuePart) + 1)
         IN  part(Head(valueParts), trim(Head(valueParts)))

\* Toon.parseDataRow: null for a blank line
parseDataRow(line, lineNumber) ==
    LET row(trimmedLine, rowStart) ==
            NodeResult(
                adopt([type |-> "data-row",
                       values |-> parseValueParts(split(trimmedLine, ","), lineNumber,
                                                  rowStart),
                       range |-> createRange(lineNumber, rowStart,
                                             lineNumber, rowStart + Len(trimmedLine))],
                      "values"),
                1)
        trimmed(trimmedLine) ==
            IF Len(trimmedLine) = 0 THEN NullResult
            ELSE row(trimmedLine, indexOf(line, trimmedLine, 0))
    IN  trimmed(trim(line))

\* Toon.tryParseSimpleArray: /^(\s*)([a-zA-Z_][a-zA-Z0-9_]*)\[(\d+)\]:\s*(.*)$/
tryParseSimpleArray(line, lineNumber) ==
    LET array(m, valuesStr, nameStartChar, bracketStartChar, valuesStartPos) ==
            NodeResult(
                adopt([type |-> "simple-array",
                       name |-> m.name,
                       nameRange |-> createRange(lineNumber, nameStartChar,
                                                 lineNumber, nameStartChar + Len(m.name)),
                       declaredSize |-> parseInt(m.sizeStr),
                       sizeRange |-> createRange(lineNumber, bracketStartChar + 1,
                                                 lineNumber,
                                                 bracketStartChar + 1 + Len(m.sizeStr)),
                       values |-> IF Len(trim(valuesStr)) > 0
                                  THEN parseValueParts(split(valuesStr, ","), lineNumber,
                                                       valuesStartPos)
                                  ELSE <<>>,
                       range |-> createRange(lineNumber, 0, lineNumber, Len(line))],
                      "values"),
                1)
        located(m, valuesStr, bracketStartChar, colonChar) ==
            array(m, valuesStr, Len(m.indent), bracketStartChar,
                  indexOf(line, valuesStr, colonChar + 1))
        captured(m, valuesStr, bracketStartChar) ==
            located(m, valuesStr, bracketStartChar,
                    indexOf(line, <<":">>, bracketStartChar))
        matched(m) ==
            IF ~m.ok THEN NullResult
            ELSE IF charAt(line, m.after) # ":" THEN NullResult
            ELSE IF includes(line, "{") /\ includes(line, "}") THEN NullResult
            ELSE captured(m,
                          substringFrom(line, span(line, m.after + 1, Whitespace)),
                          Len(m.indent) + Len(m.name))
    IN  matched(matchArrayPrefix(line))

\* The field loop of tryParseStructuredArray: each field name is located by
\* searching the field list again from the end of the previous field.
RECURSIVE parseFields(_, _, _, _, _)
parseFields(fieldNames, fieldsStr, fieldSearchStart, braceStartChar, lineNumber) ==
    IF Len(fieldNames) = 0 THEN <<>>
    ELSE LET fieldNode(fieldName, fieldStartChar) ==
                 [type |-> "field",
                  name |-> fieldName,
                  range |-> createRange(lineNumber, fieldStartChar,
                                        lineNumber, fieldStartChar + Len(fieldName))]
             field(fieldName, fieldStartInStr) ==
                 <<fieldNode(fieldName, braceStartChar + 1 + fieldStartInStr)>>
                 \o parseFields(Tail(fieldNames), fieldsStr,
                                fieldStartInStr + Len(fieldName), braceStartChar,
                                lineNumber)
         IN  field(Head(fieldNames),
                   indexOf(fieldsStr, Head(fieldNames), fieldSearchStart))

\* stopsDataRows without the blank-line test.
stopsDataRows_IgnoringBlank(dataLine) == charAt(dataLine, 0) \notin Whitespace

\* Whether a line ends the data rows of a structured array: it is blank or
\* does not start with whitespace.
stopsDataRows(dataLine) ==
    Len(trim(dataLine)) = 0 \/ charAt(dataLine, 0) \notin Whitespace

\* The data-row loop of tryParseStructuredArray.
RECURSIVE parseDataRows(_, _)
parseDataRows(allLines, dataLineIndex) ==
    IF dataLineIndex >= Len(allLines) THEN <<>>
    ELSE LET rows(dataLine, dataRow) ==
                 IF stopsDataRows(dataLine) THEN <<>>
                 ELSE (IF dataRow.kind = "node" THEN <<dataRow.node>> ELSE <<>>)
                      \o parseDataRows(allLines, dataLineIndex + 1)
         IN  rows(allLines[dataLineIndex + 1],
                  parseDataRow(allLines[dataLineIndex + 1], dataLineIndex))

\* A count of the data rows alone, without the header line.
structuredLinesConsumed_RowsOnly(dataRows) == Len(dataRows)

\* How many lines a structured array with the given rows consumes.
structuredLinesConsumed(dataRows) == 1 + Len(dataRows)

\* Toon.tryParseStructuredArray:
\* /^(\s*)([a-zA-Z_][a-zA-Z0-9_]*)\[(\d+)\]\{([^}]+)\}:\s*$/
tryParseStructuredArray(line, lineNumber, allLines) ==
    LET array(m, nameStartChar, bracketStartChar, fields, dataRows, linesConsumed,
              endLine) ==
            IF Len(dataRows) > 0 /\ endLine >= Len(allLines) THEN ThrowResult
            ELSE NodeResult(
                    adopt(adopt(
                        [type |-> "structured-array",
                         name |-> m.name,
                         nameRange |-> createRange(lineNumber, nameStartChar,
                                                   lineNumber, nameStartChar + Len(m.name)),
                         declaredSize |-> parseInt(m.sizeStr),
                         sizeRange |-> createRange(lineNumber, bracketStartChar + 1,
                                                   lineNumber,
                                                   bracketStartChar + 1 + Len(m.sizeStr)),
                         fields |-> fields,
                         dataRows |-> dataRows,
                         range |-> createRange(lineNumber, 0, endLine,
                                               IF Len(dataRows) > 0
                                               THEN Len(allLines[endLine + 1])
                                               ELSE Len(line))],
                        "fields"), "dataRows"),
                    linesConsumed)
        counted(m, nameStartChar, bracketStartChar, fields, dataRows, linesConsumed) ==
            array(m, nameStartChar, bracketStartChar, fields, dataRows, linesConsumed,
                  lineNumber + linesConsumed - 1)
        collected(m, nameStartChar, bracketStartChar, fields, dataRows) ==
            counted(m, nameStartChar, bracketStartChar, fields, dataRows,
                    structuredLinesConsumed(dataRows))
        fieldNames(parts) == [i \in 1..Len(parts) |-> trim(parts[i])]
        captured(m, fieldsStr, nameStartChar, bracketStartChar) ==
            collected(m, nameStartChar, bracketStartChar,
                      parseFields(fieldNames(split(fieldsStr, ",")), fieldsStr, 0,
                                  indexOf(line, <<"{">>, bracketStartChar), lineNumber),
                      parseDataRows(allLines, lineNumber + 1))
        braced(m, closeBrace) ==
            IF closeBrace = -1 \/ closeBrace = m.after + 1 THEN NullResult
            ELSE IF charAt(line, closeBrace + 1) # ":" THEN NullResult
            ELSE IF span(line, closeBrace + 2, Whitespace) # Len(line) THEN NullResult
            ELSE captured(m, substring(line, m.after + 1, closeBrace),
                          Len(m.indent), Len(m.indent) + Len(m.name))
        matched(m) ==
            IF ~m.ok THEN NullResult
            ELSE IF charAt(line, m.after) # "{" THEN NullResult
            ELSE braced(m, indexOf(line, <<"}">>, m.after + 1))
    IN  matched(matchArrayPrefix(line))

\* ------------------------------------------------------------------------
\* Toon: block structures
\* ------------------------------------------------------------------------

\* children[children.length - 1]: undefined for an empty array
Undefined == [type |-> "undefined"]

lastOf(nodes) == IF Len(nodes) = 0 THEN Undefined ELSE nodes[Len(nodes)]

\* isBlockHeader without the test for a value after the colon.
isBlockHeader_AnyValue(line, lineNumber, allLines) ==
    LET colonIndex == indexOf(line, <<":">>, 0)
        bracketIndex == indexOf(line, <<"[">>, 0)
        nextLineIndex == lineNumber + 1
        nextLine == allLines[nextLineIndex + 1]
    IN  /\ colonIndex # -1
        /\ ~(bracketIndex # -1 /\ bracketIndex < colonIndex)
        /\ ~(nextLineIndex >= Len(allLines))
        /\ ~(Len(trim(nextLine)) = 0 \/ getIndentLevel(nextLine) <= getIndentLevel(line))

\* isBlockHeader accepting a next line of the same indentation.
isBlockHeader_SameIndent(line, lineNumber, allLines) ==
    LET colonIndex == indexOf(line, <<":">>, 0)
        bracketIndex == indexOf(line, <<"[">>, 0)
        valueAfterColon == trim(substringFrom(line, colonIndex + 1))
        nextLineIndex == lineNumber + 1
        nextLine == allLines[nextLineIndex + 1]
    IN  /\ colonIndex # -1
        /\ ~(bracketIndex # -1 /\ bracketIndex < colonIndex)
        /\ ~(Len(valueAfterColon) > 0)
        /\ ~(nextLineIndex >= Len(allLines))
        /\ ~(Len(trim(nextLine)) = 0 \/ getIndentLevel(nextLine) < getIndentLevel(line))

\* The checks both block parsers make before collecting children: a colon, no
\* bracket before it, nothing after it, and a next line that is non-blank and
\* more indented than this one.
isBlockHeader(line, lineNumber, allLines) ==
    LET colonIndex == indexOf(line, <<":">>, 0)
        bracketIndex == indexOf(line, <<"[">>, 0)
        valueAfterColon == trim(substringFrom(line, colonIndex + 1))
        nextLineIndex == lineNumber + 1
        nextLine == allLines[nextLineIndex + 1]
    IN  /\ colonIndex # -1
        /\ ~(bracketIndex # -1 /\ bracketIndex < colonIndex)
        /\ ~(Len(valueAfterColon) > 0)
        /\ ~(nextLineIndex >= Len(allLines))
        /\ ~(Len(trim(nextLine)) = 0 \/ getIndentLevel(nextLine) <= getIndentLevel(line))

\* The child loop skipping no line.
skipsLine_Never(childLine) == FALSE

\* Whether the child loop skips a line without ending the block: it is blank.
skipsLine(childLine) == Len(trim(childLine)) = 0

\* Whether the child loop stops at a non-blank line of this indentation.
endsBlock(childIndent, childIndentLevel) == childIndent < childIndentLevel

\* The block parsers never giving a block up.
noBlock_Never(blockChildren) == FALSE

\* Whether a block with these children is given up (null is returned).
noBlock(blockChildren) == Len(blockChildren) = 0

\* The end position taken from the first child.
blockEnd_FirstChild(blockChildren) == blockChildren[1].range.end

\* The end position a block takes from its children.
blockEnd(blockChildren) == lastOf(blockChildren).range.end

\* The block node both block parsers build once the children are known.
createBlockNode(line, lineNumber, blockChildren) ==
    LET block(colonIndex, key, keyStartChar, end) ==
            adopt([type |-> "block",
                   key |-> key,
                   keyRange |-> createRange(lineNumber, keyStartChar,
                                            lineNumber, keyStartChar + Len(key)),
                   colonPosition |-> colonIndex,
                   children |-> blockChildren,
                   range |-> createRange(lineNumber, 0, end.line, end.character)],
                  "children")
        keyed(colonIndex, key) ==
            block(colonIndex, key, indexOf(line, key, 0), blockEnd(blockChildren))
        found(colonIndex) == keyed(colonIndex, trim(substring(line, 0, colonIndex)))
    IN  found(indexOf(line, <<":">>, 0))

RECURSIVE parseBlockChild(_, _, _, _)
RECURSIVE tryParseNestedBlockStructure(_, _, _, _)
RECURSIVE collectBlockChildren(_, _, _, _)

\* The child loop of tryParseBlockStructure and tryParseNestedBlockStructure:
\* the children collected from childLineIndex on, the index of the line the
\* loop stopped at, and whether parsing a child threw.
collectBlockChildren(allLines, childLineIndex, childIndentLevel, acc) ==
    IF childLineIndex >= Len(allLines)
    THEN [children |-> acc, childLineIndex |-> childLineIndex, threw |-> FALSE]
    ELSE LET stopped(threw) ==
                 [children |-> acc, childLineIndex |-> childLineIndex, threw |-> threw]
             child(childResult) ==
                 IF childResult.kind = "throw" THEN stopped(TRUE)
                 ELSE collectBlockChildren(
                         allLines, childLineIndex + childResult.linesConsumed,
                         childIndentLevel,
                         IF childResult.node.type # "empty"
                         THEN Append(acc, childResult.node) ELSE acc)
             atLine(childLine) ==
                 IF skipsLine(childLine)
                 THEN collectBlockChildren(allLines, childLineIndex + 1,
                                           childIndentLevel, acc)
                 ELSE IF endsBlock(getIndentLevel(childLine), childIndentLevel)
                 THEN stopped(FALSE)
                 ELSE child(parseBlockChild(childLine, childLineIndex, allLines,
                                            childIndentLevel))
         IN  atLine(allLines[childLineIndex + 1])

\* Toon.tryParseNestedBlockStructure
tryParseNestedBlockStructure(line, lineNumber, allLines, parentIndentLevel) ==
    IF ~isBlockHeader(line, lineNumber, allLines) THEN NullResult
    ELSE LET collected(loop) ==
                 IF loop.threw THEN ThrowResult
                 ELSE IF noBlock(loop.children) THEN NullResult
                 ELSE IF lastOf(loop.children) = Undefined THEN ThrowResult
                 ELSE NodeResult(createBlockNode(line, lineNumber, loop.children),
                                 loop.childLineIndex - lineNumber)
             header(nextLineIndex) ==
                 collected(collectBlockChildren(
                               allLines, nextLineIndex,
                               getIndentLevel(allLines[nextLineIndex + 1]), <<>>))
         IN  header(lineNumber + 1)

\* Toon.parseBlockChild
parseBlockChild(line, lineNumber, allLines, blockIndentLevel) ==
    IF Len(trim(line)) = 0 THEN NodeResult(createEmptyNode(lineNumber, Len(line)), 1)
    ELSE LET first(nestedBlockResult, keyValueResult) ==
                 IF nestedBlockResult.kind # "null" THEN nestedBlockResult
                 ELSE IF keyValueResult.kind # "null" THEN keyValueResult
                 ELSE NodeResult(createEmptyNode(lineNumber, Len(line)), 1)
         IN  first(tryParseNestedBlockStructure(line, lineNumber, allLines,
                                                blockIndentLevel),
                   tryParseKeyValuePair(line, lineNumber))

\* Toon.tryParseBlockStructure
tryParseBlockStructure(line, lineNumber, allLines) ==
    IF ~isBlockHeader(line, lineNumber, allLines) THEN NullResult
    ELSE LET collected(loop) ==
                 IF loop.threw THEN ThrowResult
                 ELSE IF noBlock(loop.children) THEN NullResult
                 ELSE IF lastOf(loop.children) = Undefined THEN ThrowResult
                 ELSE NodeResult(createBlockNode(line, lineNumber, loop.children),
                                 loop.childLineIndex - lineNumber)
             header(nextLineIndex) ==
                 collected(collectBlockChildren(
                               allLines, nextLineIndex,
                               getIndentLevel(allLines[nextLineIndex + 1]), <<>>))
         IN  header(lineNumber + 1)

\* ------------------------------------------------------------------------
\* Toon: lines and documents
\* ------------------------------------------------------------------------

\* Toon.parseLine: the first pattern that matches, in priority order.
parseLine(line, lineNumber, allLines) ==
    IF Len(trim(line)) = 0 THEN NodeResult(createEmptyNode(lineNumber, Len(line)), 1)
    ELSE LET first(structuredArrayResult, simpleArrayResult, blockResult,
                   keyValueResult) ==
                 IF structuredArrayResult.kind # "null" THEN structuredArrayResult
                 ELSE IF simpleArrayResult.kind # "null" THEN simpleArrayResult
                 ELSE IF blockResult.kind # "null" THEN blockResult
                 ELSE IF keyValueResult.kind # "null" THEN keyValueResult
                 ELSE NodeResult(createEmptyNode(lineNumber, Len(line)), 1)
         IN  first(tryParseStructuredArray(line, lineNumber, allLines),
                   tryParseSimpleArray(line, lineNumber),
                   tryParseBlockStructure(line, lineNumber, allLines),
                   tryParseKeyValuePair(line, lineNumber))

\* The document node parse builds when its loop has consumed every line.
createDocumentNode(allLines, nodes) ==
    adopt([type |-> "document",
           range |-> createRange(0, 0, Len(allLines) - 1,
                                 IF Len(allLines) > 0
                                 THEN Len(allLines[Len(allLines)]) ELSE 0),
           children |-> nodes],
          "children")

\* No document: before parse returns, or after it threw.
NoDocument == [type |-> "none"]

\* Toon.parse as a function of the lines of the text (text.split('\n')):
\* the document, or NoDocument when an exception leaves parse.
RECURSIVE parseFrom(_, _, _)
parseFrom(allLines, index, nodes) ==
    IF index >= Len(allLines) THEN createDocumentNode(allLines, nodes)
    ELSE LET parsed(result) ==
                 IF result.kind = "throw" THEN NoDocument
                 ELSE parseFrom(allLines, index + result.linesConsumed,
                                Append(nodes, result.node))
         IN  parsed(parseLine(allLines[index + 1], index, allLines))

parse(allLines) == parseFrom(allLines, 0, <<>>)

\* ------------------------------------------------------------------------
\* ASTWalker
\* ------------------------------------------------------------------------

\* The visitor method the switch of walkNode dispatches a node type to;
\* "none" for a type the switch has no case for.
dispatchMethod(type) ==
    CASE type = "document" -> "visitDocument"
      [] type = "key-value-pair" -> "visitKeyValuePair"
      [] type = "simple-array" -> "visitSimpleArray"
      [] type = "structured-array" -> "visitStructuredArray"
      [] type = "field" -> "visitField"
      [] type = "data-row" -> "visitDataRow"
      [] type = "value" -> "visitValue"
      [] type = "empty" -> "visitEmpty"
      [] OTHER -> "none"

\* The children the switch of walkNode recurses into, in order.
walkChildren(node) ==
    CASE node.type = "document" -> node.children
      [] node.type = "simple-array" -> node.values
      [] node.type = "structured-array" -> node.fields \o node.dataRows
      [] node.type = "data-row" -> node.values
      [] OTHER -> <<>>

\* ASTWalker.walkNode: the visits made, in order.  A visit records the node,
\* its path from the root (child indices), the depth passed to onNodeVisit
\* and the visitor method dispatched to.
RECURSIVE walkNode(_, _, _)
RECURSIVE walkNodes(_, _, _, _)
walkNode(node, depth, path) ==
    <<[node |-> node, path |-> path, depth |-> depth,
       method |-> dispatchMethod(node.type)]>>
    \o walkNodes(walkChildren(node), depth + 1, path, 1)

walkNodes(nodes, depth, path, i) ==
    IF i > Len(nodes) THEN <<>>
    ELSE walkNode(nodes[i], depth, Append(path, i)) \o walkNodes(nodes, depth, path, i + 1)

\* ASTWalker.walk
walk(node) == walkNode(node, 0, <<>>)

\* ------------------------------------------------------------------------
\* ASTDiagnosticValidator
\* ------------------------------------------------------------------------

Diagnostic(severity, range, message, args) ==
    [severity |-> severity, range |-> range, message |-> message, args |-> args,
     source |-> "toon"]

\* ASTDiagnosticValidator.visitBlock
visitBlock(node) ==
    IF Len(node.children) = 0
    THEN <<Diagnostic("warning", node.range, "EMPTY_BLOCK", <<>>)>>
    ELSE <<>>

\* visitKeyValuePair testing the value only when the key is present.
visitKeyValuePair_FirstOnly(node) ==
    IF Len(trim(node.key)) = 0
    THEN <<Diagnostic("error", node.keyRange, "MISSING_KEY", <<>>)>>
    ELSE IF Len(trim(node.value)) = 0
    THEN <<Diagnostic("error", node.valueRange, "MISSING_VALUE", <<>>)>>
    ELSE <<>>

\* ASTDiagnosticValidator.visitKeyValuePair
visitKeyValuePair(node) ==
    (IF Len(trim(node.key)) = 0
     THEN <<Diagnostic("error", node.keyRange, "MISSING_KEY", <<>>)>> ELSE <<>>)
    \o
    (IF Len(trim(node.value)) = 0
     THEN <<Diagnostic("error", node.valueRange, "MISSING_VALUE", <<>>)>> ELSE <<>>)

\* visitSimpleArray with the two messages exchanged.
visitSimpleArray_Swapped(node) ==
    LET actualCount == Len(node.values)
        declaredSize == node.declaredSize
    IN  IF actualCount # declaredSize
        THEN <<Diagnostic("error", node.range,
                          IF actualCount > declaredSize
                          THEN "ARRAY_SIZE_INSUFFICIENT" ELSE "ARRAY_SIZE_EXCEEDED",
                          <<declaredSize, actualCount>>)>>
        ELSE <<>>

\* ASTDiagnosticValidator.visitSimpleArray
visitSimpleArray(node) ==
    LET actualCount == Len(node.values)
        declaredSize == node.declaredSize
    IN  IF actualCount # declaredSize
        THEN <<Diagnostic("error", node.range,
                          IF actualCount < declaredSize
                          THEN "ARRAY_SIZE_INSUFFICIENT" ELSE "ARRAY_SIZE_EXCEEDED",
                          <<declaredSize, actualCount>>)>>
        ELSE <<>>

\* ASTDiagnosticValidator.validateDataRow
validateDataRow(row, parentArray) ==
    LET expectedFieldCount == Len(parentArray.fields)
        actualFieldCount == Len(row.values)
    IN  IF actualFieldCount # expectedFieldCount
        THEN <<Diagnostic("error", row.range,
                          IF actualFieldCount < expectedFieldCount
                          THEN "FIELD_COUNT_INSUFFICIENT" ELSE "FIELD_COUNT_EXCEEDED",
                          <<expectedFieldCount, actualFieldCount>>)>>
        ELSE <<>>

RECURSIVE validateDataRows(_, _, _)
validateDataRows(rows, i, parentArray) ==
    IF i > Len(rows) THEN <<>>
    ELSE validateDataRow(rows[i], parentArray) \o validateDataRows(rows, i + 1, parentArray)

\* visitStructuredArray anchoring the row-count error at the whole array.
visitStructuredArray_WholeRange(node) ==
    LET actualRows == Len(node.dataRows)
        declaredSize == node.declaredSize
    IN  (IF actualRows # declaredSize
         THEN <<Diagnostic("error", node.range, "ARRAY_ROWS_MISMATCH",
                           <<declaredSize, actualRows>>)>>
         ELSE <<>>)
        \o validateDataRows(node.dataRows, 1, node)

\* visitStructuredArray validating the rows only when their number is right.
visitStructuredArray_RowsOrCells(node) ==
    LET actualRows == Len(node.dataRows)
        declaredSize == node.declaredSize
    IN  IF actualRows # declaredSize
        THEN <<Diagnostic("error", node.sizeRange, "ARRAY_ROWS_MISMATCH",
                          <<declaredSize, actualRows>>)>>
        ELSE validateDataRows(node.dataRows, 1, node)

\* ASTDiagnosticValidator.visitStructuredArray
visitStructuredArray(node) ==
    LET actualRows == Len(node.dataRows)
        declaredSize == node.declaredSize
    IN  (IF actualRows # declaredSize
         THEN <<Diagnostic("error", node.sizeRange, "ARRAY_ROWS_MISMATCH",
                           <<declaredSize, actualRows>>)>>
         ELSE <<>>)
        \o validateDataRows(node.dataRows, 1, node)

\* What the validator pushes when the walker dispatches one visit to it; it
\* implements no method for fields, data rows, values and empty lines.
validatorVisit(visit) ==
    CASE visit.method = "visitBlock" -> visitBlock(visit.node)
      [] visit.method = "visitKeyValuePair" -> visitKeyValuePair(visit.node)
      [] visit.method = "visitSimpleArray" -> visitSimpleArray(visit.node)
      [] visit.method = "visitStructuredArray" -> visitStructuredArray(visit.node)
      [] OTHER -> <<>>

\* collectDiagnostics putting what each visit pushes before the rest.
RECURSIVE collectDiagnostics_NewestFirst(_, _)
collectDiagnostics_NewestFirst(visits, i) ==
    IF i > Len(visits) THEN <<>>
    ELSE collectDiagnostics_NewestFirst(visits, i + 1) \o validatorVisit(visits[i])

\* getDiagnostics() after walker.walk(ast, validator) made these visits.
RECURSIVE collectDiagnostics(_, _)
collectDiagnostics(visits, i) ==
    IF i > Len(visits) THEN <<>>
    ELSE validatorVisit(visits[i]) \o collectDiagnostics(visits, i + 1)

\* ------------------------------------------------------------------------
\* ASTHoverProvider
\* ------------------------------------------------------------------------

\* isPositionInRange: the start is inclusive, the end exclusive
isPositionInRange(pos, range) ==
    /\ ~(pos.line < range.start.line)
    /\ ~(pos.line = range.start.line /\ pos.character < range.start.character)
    /\ ~(pos.line > range.end.line)
    /\ ~(pos.line = range.end.line /\ pos.character >= range.end.character)

\* getHover() of a provider no visit has set a result in
NoHover == [kind |-> "null"]

\* A Hover: its markdown, as the parts the template joins, and its range.
HoverResult(contents, range) == [kind |-> "hover", contents |-> contents, range |-> range]

\* The index of the first of the nodes whose range holds the position: the
\* loops over values and over fields that return at the first hit; 0 when
\* the loop ends without one.
firstInRange(nodes, pos) ==
    IF \E i \in 1..Len(nodes) : isPositionInRange(pos, nodes[i].range)
    THEN Min({i \in 1..Len(nodes) : isPositionInRange(pos, nodes[i].range)})
    ELSE 0

\* ASTHoverProvider.visitKeyValuePair: the result after the visit
ASTHoverProvider_visitKeyValuePair(result, node, pos) ==
    IF isPositionInRange(pos, node.keyRange)
    THEN HoverResult(<<"Key", node.key, "Value", node.value>>, node.keyRange)
    ELSE IF isPositionInRange(pos, node.valueRange)
    THEN HoverResult(<<"Value", node.value, "Key", node.key>>, node.valueRange)
    ELSE result

\* ASTHoverProvider.visitSimpleArray
ASTHoverProvider_visitSimpleArray(result, node, pos) ==
    LET found(i) ==
            IF i = 0 THEN result
            ELSE HoverResult(<<"Value", node.values[i].value, "Index", i,
                               Len(node.values), "Array", node.name>>,
                             node.values[i].range)
    IN  IF isPositionInRange(pos, node.nameRange)
        THEN HoverResult(<<"Array", node.name, "Size", node.declaredSize,
                           "Values", Len(node.values)>>,
                         node.nameRange)
        ELSE found(firstInRange(node.values, pos))

\* firstCellWithField taking the last field for a cell beyond the fields.
firstCellWithField_AnyCell(node, pos) ==
    LET cells == {rc \in (1..Len(node.dataRows)) \X (1..Len(node.fields)) :
                     \E c \in 1..Len(node.dataRows[rc[1]].values) :
                         /\ rc[2] = (IF c <= Len(node.fields) THEN c ELSE Len(node.fields))
                         /\ isPositionInRange(pos, node.dataRows[rc[1]].values[c].range)}
    IN  IF cells = {} THEN <<0, 0>>
        ELSE CHOOSE rc \in cells :
                \A other \in cells :
                    rc[1] < other[1] \/ (rc[1] = other[1] /\ rc[2] <= other[2])

\* The first cell, in row order and then cell order, that holds the position
\* and has a field of its index; <<0, 0>> when there is none.
firstCellWithField(node, pos) ==
    LET cells == {rc \in (1..Len(node.dataRows)) \X (1..Len(node.fields)) :
                     /\ rc[2] <= Len(node.dataRows[rc[1]].values)
                     /\ isPositionInRange(pos, node.dataRows[rc[1]].values[rc[2]].range)}
    IN  IF cells = {} THEN <<0, 0>>
        ELSE CHOOSE rc \in cells :
                \A other \in cells :
                    rc[1] < other[1] \/ (rc[1] = other[1] /\ rc[2] <= other[2])

\* ASTHoverProvider.visitStructuredArray
ASTHoverProvider_visitStructuredArray(result, node, pos) ==
    LET cell(rc) ==
            IF rc = <<0, 0>> THEN result
            ELSE HoverResult(<<"Field", node.fields[rc[2]].name,
                               "Value", node.dataRows[rc[1]].values[rc[2]].value,
                               "Go to definition", pos, node.fields[rc[2]].range>>,
                             node.dataRows[rc[1]].values[rc[2]].range)
        field(i) ==
            IF i = 0 THEN cell(firstCellWithField(node, pos))
            ELSE HoverResult(<<"Field", node.fields[i].name, "Position", i,
                               Len(node.fields)>>,
                             node.fields[i].range)
    IN  IF isPositionInRange(pos, node.nameRange)
        THEN HoverResult(<<"Structured Array", node.name, "Size", node.declaredSize,
                           "Fields", [i \in 1..Len(node.fields) |-> node.fields[i].name]>>,
                         node.nameRange)
        ELSE field(firstInRange(node.fields, pos))

\* The result of the provider after the walker dispatched one visit to it;
\* its other methods set nothing.
hoverVisit(result, visit, pos) ==
    CASE visit.method = "visitKeyValuePair" ->
             ASTHoverProvider_visitKeyValuePair(result, visit.node, pos)
      [] visit.method = "visitSimpleArray" ->
             ASTHoverProvider_visitSimpleArray(result, visit.node, pos)
      [] visit.method = "visitStructuredArray" ->
             ASTHoverProvider_visitStructuredArray(result, visit.node, pos)
      [] OTHER -> result

\* getHover() after walker.walk(ast, hoverProvider) made these visits.
RECURSIVE getHover(_, _, _, _)
getHover(visits, i, result, pos) ==
    IF i > Len(visits) THEN result
    ELSE getHover(visits, i + 1, hoverVisit(result, visits[i], pos), pos)

\* ------------------------------------------------------------------------
\* ASTDefinitionProvider
\* ------------------------------------------------------------------------

\* getDefinition() of a provider no visit has set a result in
NoDefinition == [kind |-> "null"]

\* A Location of the document: its range.
LocationResult(range) == [kind |-> "location", range |-> range]

\* visitStructuredArray answering on the field names of the header too.
ASTDefinitionProvider_visitStructuredArray_FieldNames(result, node, pos) ==
    LET cell(rc) ==
            IF rc = <<0, 0>> THEN result ELSE LocationResult(node.fields[rc[2]].range)
        field(i) ==
            IF i = 0 THEN cell(firstCellWithField(node, pos))
            ELSE LocationResult(node.fields[i].range)
    IN  field(firstInRange(node.fields, pos))

\* ASTDefinitionProvider.visitStructuredArray: the result after the visit
ASTDefinitionProvider_visitStructuredArray(result, node, pos) ==
    LET cell(rc) ==
            IF rc = <<0, 0>> THEN result ELSE LocationResult(node.fields[rc[2]].range)
    IN  cell(firstCellWithField(node, pos))

\* The result of the provider after the walker dispatched one visit to it;
\* its other methods are empty.
definitionVisit(result, visit, pos) ==
    IF visit.method = "visitStructuredArray"
    THEN ASTDefinitionProvider_visitStructuredArray(result, visit.node, pos)
    ELSE result

\* getDefinition() after walker.walk(ast, definitionProvider) made these visits.
RECURSIVE getDefinition(_, _, _, _)
getDefinition(visits, i, result, pos) ==
    IF i > Len(visits) THEN result
    ELSE getDefinition(visits, i + 1, definitionVisit(result, visits[i], pos), pos)

\* ------------------------------------------------------------------------
\* ToonEventEmitterBase
\* ------------------------------------------------------------------------

\* The events of a parse call that listeners can be registered for.
EventNames == {"parse:start", "parse:complete", "parse:error"}

\* No error: the error of the events that carry none.
NoParseError == [message |-> "none", range |-> createRange(-1, -1, -1, -1),
                 severity |-> "none"]

\* The event emitParseStart emits
ParseStartEvent == [name |-> "parse:start", error |-> NoParseError]

\* The event emitParseComplete emits
ParseCompleteEvent == [name |-> "parse:complete", error |-> NoParseError]

\* The event emitParseError emits for the ParseError the catch block of parse
\* builds.
ParseErrorEvent ==
    [name |-> "parse:error",
     error |-> [message |-> "error.message", range |-> createRange(0, 0, 0, 0),
                severity |-> "error"]]

\* ------------------------------------------------------------------------
\* ToonSerializer
\* ------------------------------------------------------------------------

\* DEFAULT_OPTIONS
DefaultIndent == <<" ", " ">>

DefaultLineEnding == <<"\n">>

\* No string: serializeNode's null, and the text before serialize returned.
NoString == <<"null">>

DigitChar(d) ==
    CASE d = 0 -> "0" [] d = 1 -> "1" [] d = 2 -> "2" [] d = 3 -> "3"
      [] d = 4 -> "4" [] d = 5 -> "5" [] d = 6 -> "6" [] d = 7 -> "7"
      [] d = 8 -> "8" [] d = 9 -> "9"

\* `${n}` of a non-negative integer
RECURSIVE numberToString(_)
numberToString(n) ==
    IF n < 10 THEN <<DigitChar(n)>>
    ELSE numberToString(n \div 10) \o <<DigitChar(n % 10)>>

\* str.repeat(n)
RECURSIVE repeat(_, _)
repeat(str, n) == IF n <= 0 THEN <<>> ELSE str \o repeat(str, n - 1)

\* strs.join(sep)
RECURSIVE join(_, _)
join(strs, sep) ==
    IF Len(strs) = 0 THEN <<>>
    ELSE IF Len(strs) = 1 THEN strs[1]
    ELSE strs[1] \o sep \o join(Tail(strs), sep)

\* nodes.map(n => n.name) and nodes.map(n => n.value)
names(nodes) == [i \in 1..Len(nodes) |-> nodes[i].name]

values(nodes) == [i \in 1..Len(nodes) |-> nodes[i].value]

\* serializeKeyValuePair that writes the key only.
serializeKeyValuePair_KeyOnly(node, indent) ==
    indent \o node.key \o <<":">>

\* ToonSerializer.serializeKeyValuePair
serializeKeyValuePair(node, indent) ==
    IF Len(node.value) > 0
    THEN indent \o node.key \o <<":", " ">> \o node.value
    ELSE indent \o node.key \o <<":">>

\* ToonSerializer.serializeSimpleArray
serializeSimpleArray(node, indent) ==
    indent \o node.name \o <<"[">> \o numberToString(node.declaredSize) \o <<"]", ":", " ">>
        \o join(values(node.values), <<",">>)

\* ToonSerializer.serializeStructuredArray
serializeStructuredArray(node, indent) ==
    join(<<indent \o node.name \o <<"[">> \o numberToString(node.declaredSize) \o <<"]", "{">>
               \o join(names(node.fields), <<",">>) \o <<"}", ":">> >>
             \o [r \in 1..Len(node.dataRows) |->
                    indent \o DefaultIndent
                        \o join(values(node.dataRows[r].values), <<",">>)],
         DefaultLineEnding)

\* ToonSerializer.serializeEmpty
serializeEmpty(node) == <<>>

\* ToonSerializer.serializeNode and serializeBlock; serializeChildren is the
\* loop of serializeBlock and of serialize, which drops the null results.
RECURSIVE serializeNode(_, _)
RECURSIVE serializeBlock(_, _)
RECURSIVE serializeChildren(_, _, _, _)
serializeNode(node, indentLevel) ==
    CASE node.type = "key-value-pair" ->
             serializeKeyValuePair(node, repeat(DefaultIndent, indentLevel))
      [] node.type = "block" -> serializeBlock(node, indentLevel)
      [] node.type = "simple-array" ->
             serializeSimpleArray(node, repeat(DefaultIndent, indentLevel))
      [] node.type = "structured-array" ->
             serializeStructuredArray(node, repeat(DefaultIndent, indentLevel))
      [] node.type = "empty" -> serializeEmpty(node)
      [] OTHER -> NoString

serializeBlock(node, indentLevel) ==
    join(serializeChildren(node.children, 1, indentLevel + 1,
                           <<repeat(DefaultIndent, indentLevel) \o node.key \o <<":">> >>),
         DefaultLineEnding)

serializeChildren(nodes, i, indentLevel, out) ==
    IF i > Len(nodes) THEN out
    ELSE LET pushed(str) ==
                 serializeChildren(nodes, i + 1, indentLevel,
                                   IF str # NoString THEN Append(out, str) ELSE out)
         IN  pushed(serializeNode(nodes[i], indentLevel))

\* ToonSerializer.serialize
serialize(node) == join(serializeChildren(node.children, 1, 0, <<>>), DefaultLineEnding)

\* ------------------------------------------------------------------------
\* The language server: AST cache and validation
\* ------------------------------------------------------------------------

\* The two servers of the repository: the one that validates the AST of the
\* Toon class in the tick of the event, and the one that awaits the
\* document settings before it parses and runs its list of validators.
Servers == {"ast", "settings"}

\* documentCache.get(uri) of a URI without an entry
NoEntry == [kind |-> "none", source |-> <<>>]

\* The cache entry of a text: the document parsed from it, which is a
\* function of the text.
Entry(text) == [kind |-> "document", source |-> text]

\* No request answered and no validation finished yet.
NoAnswer == [kind |-> "none", source |-> <<>>, text |-> <<>>]

NoValidation == [kind |-> "none"]

\* The visits of the validator over the AST of a text.
validatorVisits(text) == SelectSeq(walk(parse(text)), LAMBDA v : v.method # "none")

\* validateTextDocument of the AST server without the try block around the
\* walk: the exception reaches safeExecuteAsync, which returns its fallback.
validateAST_Unprotected(visits, fault, extra) ==
    IF fault = 0 THEN collectDiagnostics(visits, 1) ELSE <<>>

\* validateTextDocument of the AST server: the diagnostics returned when the
\* validator throws in visit number fault (0: never) after it has pushed
\* extra diagnostics of that visit.  The try block around walker.walk catches
\* the exception and validator.getDiagnostics() returns what was pushed.
validateAST(visits, fault, extra) ==
    IF fault = 0 THEN collectDiagnostics(visits, 1)
    ELSE collectDiagnostics(SubSeq(visits, 1, fault - 1), 1)
             \o SubSeq(validatorVisit(visits[fault]), 1, extra)

\* The validators of the settings server, in the order of its list.
Validators == <<"ArraySizeValidator", "StructuredArrayFieldValidator",
                "KeyValuePairValidator", "ArraySyntaxValidator">>

\* What validator number i returns when it does not throw: one diagnostic of
\* its own.
validatorResult(i) ==
    <<Diagnostic("error", createRange(i, 0, i, 1), Validators[i], <<>>)>>

\* The loop over the validators of validateTextDocument of the settings
\* server: the results of the validators that return are pushed, the
\* exception of one that throws is caught and logged.
RECURSIVE validateEach(_, _)
validateEach(outcomes, i) ==
    IF i > Len(Validators) THEN <<>>
    ELSE (IF outcomes[i] = "throws" THEN <<>> ELSE validatorResult(i))
             \o validateEach(outcomes, i + 1)

\* The state of the variables of the server where no server runs.
NoServer ==
    /\ server = "none"
    /\ openDocument = 0
    /\ objects = <<>>
    /\ documentCache = NoEntry
    /\ documentSettings = 0
    /\ requestCount = 0
    /\ replied = {}
    /\ pending = {}
    /\ answer = NoAnswer
    /\ validation = NoValidation

\* ------------------------------------------------------------------------
\* Input texts
\* ------------------------------------------------------------------------

Indent(n) == [i \in 1..n |-> " "]

Indents == 0..MaxIndent

\* Line bodies of every kind the classifier tells apart: a pair, a pair with
\* an empty value, a line without a colon (also a data row of two cells), a
\* simple array, a structured-array header and a pair without a key.
Bodies ==
    { <<"a", ":", " ", "1">>,
      <<"b", ":">>,
      <<"x", ",", "y">>,
      <<"i", "[", "2", "]", ":", " ", "p", ",", "q">>,
      <<"s", "[", "1", "]", "{", "f", ",", "g", "}", ":">>,
      <<":", " ", "v">> }

\* Line bodies of block documents: pairs with and without a value.
BlockBodies ==
    { <<"a", ":", " ", "1">>,
      <<"b", ":">> }

LinePool == {Indent(n) \o b : n \in Indents, b \in Bodies} \cup {Indent(n) : n \in Indents}

BlockLinePool == {Indent(n) \o b : n \in Indents, b \in BlockBodies} \cup {<<>>}

\* text.split('\n') of the texts of 1..n lines over a pool
TextsOver(pool, n) == UNION {[1..k -> pool] : k \in 1..n}

\* The documents of the block-formation property: a header "k:" followed by
\* child lines "  ci: vi" with identifier keys and non-empty trimmed values.
P1Keys == { <<"k">>, <<"_", "c", "1">> }

P1Values == { <<"1">>, <<"v", " ", "w">>, <<"x", ":", "y">> }

P1Header(key) == key \o <<":">>

P1Line(key, value) == Indent(2) \o key \o <<":", " ">> \o value

P1Texts ==
    { <<P1Header(k)>> \o body :
        k \in P1Keys,
        body \in TextsOver({P1Line(ck, cv) : ck \in P1Keys, cv \in P1Values}, MaxLines) }

\* Documents quoted in the specification.
NestedPairsText ==
    << <<"a", ":">>,
       <<" ", " ", "b", ":">>,
       <<" ", " ", "c", ":", " ", "1">> >>

ArrayInBlockText ==
    << <<"k", ":">>,
       <<" ", " ", "i", "t", "e", "m", "s", "[", "2", "]", ":", " ", "a", ",", "b">>,
       <<" ", " ", "c", ":", " ", "1">> >>

\* The documents of the parser's tests of where data rows stop: at an empty
\* line and at a non-indented line.
RowsThenEmptyLineText ==
    << <<"h", "i", "k", "e", "s", "[", "3", "]", "{", "i", "d", ",", "n", "a", "m", "e", "}", ":">>,
       <<" ", " ", "1", ",", "F", "i", "r", "s", "t">>,
       <<" ", " ", "2", ",", "S", "e", "c", "o", "n", "d">>,
       <<>>,
       <<" ", " ", "3", ",", "T", "h", "i", "r", "d">> >>

RowsThenNonIndentedText ==
    << <<"h", "i", "k", "e", "s", "[", "3", "]", "{", "i", "d", ",", "n", "a", "m", "e", "}", ":">>,
       <<" ", " ", "1", ",", "F", "i", "r", "s", "t">>,
       <<" ", " ", "2", ",", "S", "e", "c", "o", "n", "d">>,
       <<"o", "t", "h", "e", "r", ":", " ", "v", "a", "l", "u", "e">> >>

\* A nested block with a blank line between its children, followed by a
\* line of the enclosing block.
BlankInNestedBlockText ==
    << <<"a", ":">>,
       <<" ", "b", ":">>,
       <<" ", " ", "c", ":", " ", "1">>,
       <<>>,
       <<" ", " ", "d", ":">>,
       <<" ", "e", ":", " ", "2">> >>

\* The documents of the array size diagnostics: three values with three,
\* two and four declared.
FriendsEqualText ==
    << <<"f", "r", "i", "e", "n", "d", "s", "[", "3", "]", ":", " ", "a", "n", "a", ",", "l", "u", "i", "s", ",", "s", "a", "m">> >>

FriendsExceededText ==
    << <<"f", "r", "i", "e", "n", "d", "s", "[", "2", "]", ":", " ", "a", "n", "a", ",", "l", "u", "i", "s", ",", "s", "a", "m">> >>

FriendsInsufficientText ==
    << <<"f", "r", "i", "e", "n", "d", "s", "[", "4", "]", ":", " ", "a", "n", "a", ",", "l", "u", "i", "s", ",", "s", "a", "m">> >>

\* The document of the structured field mismatch: two rows declared and
\* present, of two and of four cells for three fields.
HikesFieldMismatchText ==
    << <<"h", "i", "k", "e", "s", "[", "2", "]", "{", "i", "d", ",", "n", "a", "m", "e", ",", "d", "i", "s", "t", "a", "n", "c", "e", "}", ":">>,
       <<" ", " ", "1", ",", "T", "r", "a", "i", "l">>,
       <<" ", " ", "2", ",", "P", "a", "t", "h", ",", "9", ".", "2", ",", "e", "x", "t", "r", "a">> >>

LiteralTexts ==
    {NestedPairsText, ArrayInBlockText, RowsThenEmptyLineText,
     RowsThenNonIndentedText, BlankInNestedBlockText, FriendsEqualText,
     FriendsExceededText, FriendsInsufficientText, HikesFieldMismatchText}

\* Line bodies with a "[" before the first colon that match no array
\* pattern, beside a pair, a pair without a value and a structured-array
\* header.
BracketBodies ==
    { <<"a", "[", ":", " ", "1">>,
      <<"a", "[", ":">>,
      <<"a", ":", " ", "1">>,
      <<"b", ":">>,
      <<"s", "[", "1", "]", "{", "f", ",", "g", "}", ":">> }

BracketLinePool == {Indent(n) \o b : n \in Indents, b \in BracketBodies}

\* Line bodies whose tokens occur more than once on the line: a value equal
\* to the key, a value that is a colon, array values equal to the name and to
\* the size, fields equal to the name, and equal cells of a data row.
TokenBodies ==
    { <<"a", ":", " ", "a">>,
      <<"a", ":", ":">>,
      <<"a", ":">>,
      <<"i", "[", "1", "]", ":", " ", "i", ",", "1", " ", ",", "i">>,
      <<"s", "[", "1", "]", "{", "s", ",", " ", "s", ",", "1", "}", ":">>,
      <<"x", ",", "x", " ", ",", " ", "x">> }

TokenLinePool == {Indent(n) \o b : n \in Indents, b \in TokenBodies}

\* Lines the validator tells apart: pairs without a key, without a value and
\* without both, simple arrays with as many, more and fewer values than
\* declared, structured-array headers declaring one and two rows of two
\* fields, and data rows of one, two and three cells.
ValidatorLinePool ==
    { <<":">>,
      <<":", " ", "v">>,
      <<"b", ":">>,
      <<"a", ":", " ", "1">>,
      <<"i", "[", "2", "]", ":", " ", "p", ",", "q">>,
      <<"i", "[", "1", "]", ":", " ", "p", ",", "q">>,
      <<"i", "[", "3", "]", ":", " ", "p", ",", "q">>,
      <<"s", "[", "1", "]", "{", "f", ",", "g", "}", ":">>,
      <<"s", "[", "2", "]", "{", "f", ",", "g", "}", ":">>,
      <<" ", "x">>,
      <<" ", "x", ",", "y">>,
      <<" ", "x", ",", "y", ",", "z">> }

\* Lines of the documents hovered over: a structured-array header of two
\* fields, data rows of one, two and three cells with cells of one and two
\* characters, and a pair.
HoverLinePool ==
    { <<"s", "[", "1", "]", "{", "f", ",", "g", "}", ":">>,
      <<" ", "x">>,
      <<" ", "x", "x", ",", "y">>,
      <<" ", "x", ",", "y", "y", ",", "z">>,
      <<"a", ":", " ", "1">> }

HoverTexts == TextsOver(HoverLinePool, MaxLines)

\* Lines of the documents definitions are looked up in: the lines hovered
\* over and a simple array.
DefinitionLinePool ==
    HoverLinePool \cup { <<"i", "[", "2", "]", ":", " ", "p", ",", "q">> }

DefinitionTexts == TextsOver(DefinitionLinePool, MaxLines)

\* The texts whose nodes the built documents are made of: two pairs, a
\* simple array, and two structured arrays whose fields differ in width.
BuiltTexts ==
    { << <<"a", ":", " ", "1">> >>,
      << <<"b", "b", ":", " ", "2">> >>,
      << <<"i", "[", "2", "]", ":", " ", "p", ",", "q">> >>,
      << <<"s", "[", "1", "]", "{", "f", ",", "g", "}", ":">>, <<" ", "x", ",", "y">> >>,
      << <<"t", "[", "1", "]", "{", "f", "f", ",", "g", "}", ":">>, <<" ", "x", ",", "y">> >> }

\* The positions of a hover request: every column of every line, the end of
\* the line included.
Positions(text) ==
    UNION {{createPosition(l, c) : c \in 0..Len(text[l + 1])} : l \in 0..(Len(text) - 1)}

\* No hover request yet.
NoPosition == createPosition(-1, -1)

Texts ==
    TextsOver(LinePool, MaxLines)
        \cup TextsOver(ValidatorLinePool, MaxLines)
        \cup TextsOver(TokenLinePool, MaxLines)
        \cup TextsOver(BlockLinePool, MaxLines + BlockExtraLines)
        \cup TextsOver(BracketLinePool, MaxLines)
        \cup P1Texts
        \cup LiteralTexts

\* A structured array whose only field name is blank, without and with a
\* data row.
BlankFieldTexts ==
    { << <<"s", "[", "1", "]", "{", " ", "}", ":">> >>,
      << <<"s", "[", "1", "]", "{", " ", "}", ":">>, <<" ", "x">> >> }

\* The texts of the document of the language server: a pair without
\* diagnostics, and two simple arrays with a size diagnostic each.
ServerTexts ==
    { << <<"a", ":", " ", "1">> >>,
      << <<"i", "[", "1", "]", ":", " ", "p", ",", "q">>,
         <<"i", "[", "3", "]", ":", " ", "p", ",", "q">> >> }

\* The texts parsed with listeners registered.
EventTexts == TextsOver(ValidatorLinePool, 2)

\* The texts taken through the round trip.
RoundTripTexts == Texts \cup BlankFieldTexts

\* ------------------------------------------------------------------------
\* The parse of one text, its walk and its validation
\* ------------------------------------------------------------------------

\* The state of the call parse(text) of one of the given texts when the
\* given events have been emitted.
Called(texts, at, emitted, throwing) ==
    /\ lines \in texts
    /\ pc = at
    /\ events = emitted
    /\ listeners \in throwing
    /\ lineIndex = 0
    /\ children = <<>>
    /\ consumed = <<>>
    /\ ast = NoDocument
    /\ visited = <<>>
    /\ dispatched = <<>>
    /\ diagnostics = <<>>
    /\ position = NoPosition
    /\ hover = NoHover
    /\ definition = NoDefinition
    /\ request = "none"
    /\ serialized = NoString
    /\ reparsed = NoDocument
    /\ NoServer

\* The state at the start of the loop of parse: the text is split into lines
\* and parse:start has been emitted to listeners that return.
Start(texts) == Called(texts, "parsing", <<ParseStartEvent>>, {{}})

Init == Start(Texts)

\* The start of Toon.parse: parse:start is emitted outside the try block, so
\* a listener that throws ends the call.
ParseStart ==
    /\ pc = "called"
    /\ events' = Append(events, ParseStartEvent)
    /\ pc' = IF "parse:start" \in listeners THEN "error" ELSE "parsing"
    /\ UNCHANGED <<lines, lineIndex, children, consumed, ast, visited, dispatched,
                   diagnostics, listeners>>
    /\ UNCHANGED requestVars
    /\ UNCHANGED roundTripVars
    /\ UNCHANGED serverVars

\* One iteration of the loop of Toon.parse; an exception ends the parse with
\* the parse:error event and no document.
ParseLineStep ==
    /\ pc = "parsing"
    /\ lineIndex < Len(lines)
    /\ LET parsed(result) ==
               IF result.kind = "throw"
               THEN /\ pc' = "error"
                    /\ events' = Append(events, ParseErrorEvent)
                    /\ UNCHANGED <<lineIndex, children, consumed>>
               ELSE /\ children' = Append(children, result.node)
                    /\ consumed' = Append(consumed, [line |-> lineIndex,
                                                     linesConsumed |-> result.linesConsumed])
                    /\ lineIndex' = lineIndex + result.linesConsumed
                    /\ pc' = pc
                    /\ events' = events
       IN  parsed(parseLine(lines[lineIndex + 1], lineIndex, lines))
    /\ UNCHANGED <<lines, ast, visited, dispatched, diagnostics, listeners>>
    /\ UNCHANGED requestVars
    /\ UNCHANGED roundTripVars
    /\ UNCHANGED serverVars

\* The end of Toon.parse: the document node is built, parse:complete is
\* emitted and the document returned.  parse:complete is emitted inside the
\* try block: when its listener throws, the catch block emits parse:error
\* and rethrows, and no document is returned.
ParseComplete ==
    /\ pc = "parsing"
    /\ lineIndex >= Len(lines)
    /\ IF "parse:complete" \in listeners
       THEN /\ events' = events \o <<ParseCompleteEvent, ParseErrorEvent>>
            /\ pc' = "error"
            /\ ast' = ast
       ELSE /\ events' = Append(events, ParseCompleteEvent)
            /\ pc' = "parsed"
            /\ ast' = createDocumentNode(lines, children)
    /\ UNCHANGED <<lines, lineIndex, children, consumed, visited, dispatched, diagnostics,
                   listeners>>
    /\ UNCHANGED requestVars
    /\ UNCHANGED roundTripVars
    /\ UNCHANGED serverVars

\* walker.walk(ast, validator) with an onNodeVisit callback: visited records
\* the callbacks, dispatched the visits the switch dispatched to a visitor
\* method, diagnostics what the validator collected.
Walk ==
    /\ pc = "parsed"
    /\ visited' = walk(ast)
    /\ dispatched' = SelectSeq(visited', LAMBDA v : v.method # "none")
    /\ diagnostics' = collectDiagnostics(dispatched', 1)
    /\ pc' = "walked"
    /\ UNCHANGED <<lines, lineIndex, children, consumed, ast>>
    /\ UNCHANGED requestVars
    /\ UNCHANGED roundTripVars
    /\ UNCHANGED eventVars
    /\ UNCHANGED serverVars

Next == ParseLineStep \/ ParseComplete \/ Walk

Spec == Init /\ [][Next]_vars

\* ------------------------------------------------------------------------
\* The events of a parse call with listeners that may throw
\* ------------------------------------------------------------------------

\* The state when parse is called, for every choice of the events whose
\* listener throws.
EventInit == Called(EventTexts, "called", <<>>, SUBSET EventNames)

EventNext == ParseStart \/ ParseLineStep \/ ParseComplete

EventSpec == EventInit /\ [][EventNext]_vars

\* ------------------------------------------------------------------------
\* Hover requests on a parsed text
\* ------------------------------------------------------------------------

\* connection.onHover for a position of the cached document: a new provider
\* is walked over the AST and its result returned.
OnHover ==
    /\ pc \in {"parsed", "built"}
    /\ request' = "hover"
    /\ \E pos \in Positions(lines) :
        /\ position' = pos
        /\ hover' = getHover(SelectSeq(walk(ast), LAMBDA v : v.method # "none"), 1,
                             NoHover, pos)
    /\ UNCHANGED <<lines, pc, lineIndex, children, consumed, ast, visited, dispatched,
                   diagnostics, definition>>
    /\ UNCHANGED roundTripVars
    /\ UNCHANGED eventVars
    /\ UNCHANGED serverVars

HoverInit == Start(HoverTexts)

HoverNext == ParseLineStep \/ ParseComplete \/ OnHover

HoverSpec == HoverInit /\ [][HoverNext]_vars

\* ------------------------------------------------------------------------
\* Definition requests on a parsed text
\* ------------------------------------------------------------------------

\* connection.onDefinition for a position of the cached document: a new
\* provider is walked over the AST and its result returned.
OnDefinition ==
    /\ pc \in {"parsed", "built"}
    /\ request' = "definition"
    /\ \E pos \in Positions(lines) :
        /\ position' = pos
        /\ definition' = getDefinition(SelectSeq(walk(ast), LAMBDA v : v.method # "none"),
                                       1, NoDefinition, pos)
    /\ UNCHANGED <<lines, pc, lineIndex, children, consumed, ast, visited, dispatched,
                   diagnostics, hover>>
    /\ UNCHANGED roundTripVars
    /\ UNCHANGED eventVars
    /\ UNCHANGED serverVars

DefinitionInit == Start(DefinitionTexts)

DefinitionNext == ParseLineStep \/ ParseComplete \/ OnDefinition

DefinitionSpec == DefinitionInit /\ [][DefinitionNext]_vars

\* ------------------------------------------------------------------------
\* Round trip: serialize the parsed document and parse the text again
\* ------------------------------------------------------------------------

\* serializer.serialize(ast)
Serialize ==
    /\ pc = "parsed"
    /\ serialized' = serialize(ast)
    /\ pc' = "serialized"
    /\ UNCHANGED <<lines, lineIndex, children, consumed, ast, visited, dispatched,
                   diagnostics, reparsed>>
    /\ UNCHANGED requestVars
    /\ UNCHANGED eventVars
    /\ UNCHANGED serverVars

\* toon.parse(serialized)
Reparse ==
    /\ pc = "serialized"
    /\ reparsed' = parse(split(serialized, "\n"))
    /\ pc' = "reparsed"
    /\ UNCHANGED <<lines, lineIndex, children, consumed, ast, visited, dispatched,
                   diagnostics, serialized>>
    /\ UNCHANGED requestVars
    /\ UNCHANGED eventVars
    /\ UNCHANGED serverVars

RoundTripInit == Start(RoundTripTexts)

RoundTripNext == ParseLineStep \/ ParseComplete \/ Serialize \/ Reparse

RoundTripSpec == RoundTripInit /\ [][RoundTripNext]_vars

\* ------------------------------------------------------------------------
\* Providers walked over trees that are built, not parsed
\* ------------------------------------------------------------------------

\* A provider is a visitor of any tree of AST nodes.  These documents are
\* built from the nodes of two parsed texts, so nodes of the two texts can
\* have ranges that hold the same position.
BuiltInit ==
    /\ \E first \in BuiltTexts, second \in BuiltTexts :
        /\ lines = first
        /\ ast = createDocumentNode(first, parse(first).children \o parse(second).children)
    /\ pc = "built"
    /\ lineIndex = 0
    /\ children = <<>>
    /\ consumed = <<>>
    /\ visited = <<>>
    /\ dispatched = <<>>
    /\ diagnostics = <<>>
    /\ position = NoPosition
    /\ hover = NoHover
    /\ definition = NoDefinition
    /\ request = "none"
    /\ serialized = NoString
    /\ reparsed = NoDocument
    /\ events = <<>>
    /\ listeners = {}
    /\ NoServer

BuiltNext == OnHover \/ OnDefinition

BuiltSpec == BuiltInit /\ [][BuiltNext]_vars

\* ------------------------------------------------------------------------
\* The language server: events of one document URI
\* ------------------------------------------------------------------------

\* The variables of the parse of one text, of the requests on it and of its
\* round trip, where none of them is in progress.
NoParse ==
    /\ lines = <<>>
    /\ pc = "serving"
    /\ lineIndex = 0
    /\ children = <<>>
    /\ consumed = <<>>
    /\ ast = NoDocument
    /\ visited = <<>>
    /\ dispatched = <<>>
    /\ diagnostics = <<>>
    /\ position = NoPosition
    /\ hover = NoHover
    /\ definition = NoDefinition
    /\ request = "none"
    /\ serialized = NoString
    /\ reparsed = NoDocument
    /\ events = <<>>
    /\ listeners = {}

parseVars == <<lines, pc, lineIndex, children, consumed, ast, visited, dispatched,
               diagnostics>>

\* One of the servers after initialization, with no document open.
ServerInit ==
    /\ NoParse
    /\ server \in Servers
    /\ openDocument = 0
    /\ objects = <<>>
    /\ documentCache = NoEntry
    /\ documentSettings = 0
    /\ requestCount = 0
    /\ replied = {}
    /\ pending = {}
    /\ answer = NoAnswer
    /\ validation = NoValidation

\* The part of validateTextDocument that parses the text, sets the cache
\* entry and runs the validation, for every way a validator can throw.
Validated(text) ==
    /\ documentCache' = Entry(text)
    /\ IF server = "ast"
       THEN \E fault \in 0..Len(validatorVisits(text)) :
                \E extra \in 0..(IF fault = 0 THEN 0
                                  ELSE Len(validatorVisit(validatorVisits(text)[fault]))) :
                    validation' = [kind |-> "returned", text |-> text, fault |-> fault,
                                   outcomes |-> <<>>,
                                   items |-> validateAST(validatorVisits(text), fault, extra)]
       ELSE \E outcomes \in [1..Len(Validators) -> {"returns", "throws"}] :
                validation' = [kind |-> "returned", text |-> text, fault |-> 0,
                               outcomes |-> outcomes,
                               items |-> validateEach(outcomes, 1)]

\* validateTextDocument(document) called in the handler of an event.  The
\* AST server runs it to its end in the tick of the event.  The settings
\* server first awaits getDocumentSettings: a new request to the client when
\* the URI has no settings entry, the request of the entry otherwise; the
\* rest runs in the tick of the event only when that request has its reply.
validateTextDocument(doc, text) ==
    IF server = "ast"
    THEN /\ Validated(text)
         /\ UNCHANGED <<documentSettings, requestCount, replied, pending>>
    ELSE IF documentSettings = 0
    THEN /\ requestCount < MaxRequests
         /\ requestCount' = requestCount + 1
         /\ documentSettings' = requestCount + 1
         /\ pending' = pending \cup {[doc |-> doc, req |-> requestCount + 1]}
         /\ UNCHANGED <<documentCache, validation, replied>>
    ELSE IF documentSettings \in replied
    THEN /\ Validated(text)
         /\ UNCHANGED <<documentSettings, requestCount, replied, pending>>
    ELSE /\ pending' = pending \cup {[doc |-> doc, req |-> documentSettings]}
         /\ UNCHANGED <<documentCache, validation, documentSettings, requestCount,
                        replied>>

\* The document is opened with a text: the document manager creates its
\* TextDocument object and emits onDidChangeContent.
DidOpen ==
    /\ pc = "serving"
    /\ openDocument = 0
    /\ Len(objects) < MaxOpens
    /\ \E text \in ServerTexts :
        /\ objects' = Append(objects, text)
        /\ openDocument' = Len(objects) + 1
        /\ validateTextDocument(Len(objects) + 1, text)
    /\ UNCHANGED <<server, answer>>
    /\ UNCHANGED <<parseVars, requestVars, roundTripVars, eventVars>>

\* documents.onDidChangeContent for a change of the text: the document
\* manager has updated the TextDocument object in place.
DidChangeContent ==
    /\ pc = "serving"
    /\ openDocument # 0
    /\ \E text \in ServerTexts \ {objects[openDocument]} :
        /\ objects' = [objects EXCEPT ![openDocument] = text]
        /\ validateTextDocument(openDocument, text)
    /\ UNCHANGED <<server, openDocument, answer>>
    /\ UNCHANGED <<parseVars, requestVars, roundTripVars, eventVars>>

\* connection.languages.diagnostics.on for the open document; for a closed
\* one the report is empty and nothing else happens.
DiagnosticPull ==
    /\ pc = "serving"
    /\ openDocument # 0
    /\ validateTextDocument(openDocument, objects[openDocument])
    /\ UNCHANGED <<server, openDocument, objects, answer>>
    /\ UNCHANGED <<parseVars, requestVars, roundTripVars, eventVars>>

\* documents.onDidClose: the cache entry and, in the settings server, the
\* settings entry of the URI are deleted.
DidClose ==
    /\ pc = "serving"
    /\ openDocument # 0
    /\ openDocument' = 0
    /\ documentCache' = NoEntry
    /\ documentSettings' = 0
    /\ UNCHANGED <<server, objects, requestCount, replied, pending, answer, validation>>
    /\ UNCHANGED <<parseVars, requestVars, roundTripVars, eventVars>>

\* connection.onDidChangeConfiguration of the settings server with the
\* configuration capability: documentSettings.clear().
DidChangeConfiguration ==
    /\ pc = "serving"
    /\ server = "settings"
    /\ documentSettings # 0
    /\ documentSettings' = 0
    /\ UNCHANGED <<server, openDocument, objects, documentCache, requestCount, replied,
                   pending, answer, validation>>
    /\ UNCHANGED <<parseVars, requestVars, roundTripVars, eventVars>>

\* The client replies to a settings request: the validations that await it
\* go on with the text their TextDocument object has now.
ConfigurationReply ==
    /\ pc = "serving"
    /\ \E req \in (1..requestCount) \ replied :
        /\ replied' = replied \cup {req}
        /\ pending' = {p \in pending : p.req # req}
        /\ \E p \in pending :
            /\ p.req = req
            /\ Validated(objects[p.doc])
    /\ UNCHANGED <<server, openDocument, objects, documentSettings, requestCount, answer>>
    /\ UNCHANGED <<parseVars, requestVars, roundTripVars, eventVars>>

\* What connection.onHover and connection.onDefinition answer a request
\* from: nothing for a closed document or a URI without a cache entry, the
\* cached document otherwise.
answerOf(kind) ==
    IF openDocument = 0 \/ documentCache = NoEntry
    THEN [kind |-> "null", source |-> <<>>,
          text |-> IF openDocument = 0 THEN <<>> ELSE objects[openDocument]]
    ELSE [kind |-> kind, source |-> documentCache.source, text |-> objects[openDocument]]

\* connection.onHover
ServerHover ==
    /\ pc = "serving"
    /\ answer' = answerOf("hover")
    /\ answer' # answer
    /\ UNCHANGED <<server, openDocument, objects, documentCache, documentSettings,
                   requestCount, replied, pending, validation>>
    /\ UNCHANGED <<parseVars, requestVars, roundTripVars, eventVars>>

\* connection.onDefinition
ServerDefinition ==
    /\ pc = "serving"
    /\ answer' = answerOf("definition")
    /\ answer' # answer
    /\ UNCHANGED <<server, openDocument, objects, documentCache, documentSettings,
                   requestCount, replied, pending, validation>>
    /\ UNCHANGED <<parseVars, requestVars, roundTripVars, eventVars>>

ServerNext ==
    \/ DidOpen
    \/ DidChangeContent
    \/ DiagnosticPull
    \/ DidClose
    \/ DidChangeConfiguration
    \/ ConfigurationReply
    \/ ServerHover
    \/ ServerDefinition

ServerSpec == ServerInit /\ [][ServerNext]_vars

\* ------------------------------------------------------------------------
\* The tree of the data model, against which the claims are stated
\* ------------------------------------------------------------------------

\* The children of a node in the data model: a Block owns its children as a
\* Document does.
treeChildren(node) ==
    CASE node.type = "document" -> node.children
      [] node.type = "block" -> node.children
      [] node.type = "simple-array" -> node.values
      [] node.type = "structured-array" -> node.fields \o node.dataRows
      [] node.type = "data-row" -> node.values
      [] OTHER -> <<>>

\* Every node of the tree under a node, in pre-order, with its path.
RECURSIVE treeNodes(_, _)
RECURSIVE treeNodesFrom(_, _, _)
treeNodes(node, path) ==
    <<[node |-> node, path |-> path]>> \o treeNodesFrom(treeChildren(node), path, 1)

treeNodesFrom(nodes, path, i) ==
    IF i > Len(nodes) THEN <<>>
    ELSE treeNodes(nodes[i], Append(path, i)) \o treeNodesFrom(nodes, path, i + 1)

\* The nodes of the parsed document; of the top-level nodes while parsing.
AllNodes ==
    IF ast.type = "document" THEN treeNodes(ast, <<>>)
    ELSE treeNodesFrom(children, <<>>, 1)

\* The visitor method of each node type.
VisitorMethod(type) ==
    CASE type = "document" -> "visitDocument"
      [] type = "block" -> "visitBlock"
      [] type = "key-value-pair" -> "visitKeyValuePair"
      [] type = "simple-array" -> "visitSimpleArray"
      [] type = "structured-array" -> "visitStructuredArray"
      [] type = "field" -> "visitField"
      [] type = "data-row" -> "visitDataRow"
      [] type = "value" -> "visitValue"
      [] type = "empty" -> "visitEmpty"

IsPrefix(p, q) == Len(p) <= Len(q) /\ SubSeq(q, 1, Len(p)) = p

Count(seq, Test(_)) == Cardinality({j \in 1..Len(seq) : Test(seq[j])})

Messages(diags) == [j \in 1..Len(diags) |-> diags[j].message]

DiagnosticsOnLine(l) == SelectSeq(diagnostics, LAMBDA d : d.range.start.line = l)

LineOf(node) == lines[node.range.start.line + 1]

\* ------------------------------------------------------------------------
\* Claims
\* ------------------------------------------------------------------------

\* C1: ASTWalker.walk visits every node of the tree exactly once -- one
\* instrumentation callback and one dispatch to the visitor method of the
\* node's type -- Block nodes and the children of Blocks included.
C1_WalkVisitsEveryNodeOnce ==
    pc = "walked" =>
        \A i \in 1..Len(AllNodes) :
            LET n == AllNodes[i]
            IN  /\ Count(visited, LAMBDA v : v.path = n.path) = 1
                /\ Count(dispatched,
                         LAMBDA v : v.path = n.path
                                    /\ v.method = VisitorMethod(n.node.type)) = 1

\* The diagnostics a pair gets at top level: a missing key when its key is
\* empty, then a missing value when its value is empty.
PairMessages(node) ==
    (IF node.key = <<>> THEN <<"MISSING_KEY">> ELSE <<>>)
    \o (IF node.value = <<>> THEN <<"MISSING_VALUE">> ELSE <<>>)

\* C2: the validator reports nothing for a Block header, and for every pair
\* nested in a Block exactly the missing-key / missing-value diagnostics the
\* pair gets at top level; for "a:", "  b:", "  c: 1" the result is exactly
\* one missing-value diagnostic, for b.
C2_NestedPairsValidated ==
    pc = "walked" =>
        /\ \A i \in 1..Len(AllNodes) :
            LET n == AllNodes[i].node
                onLine == DiagnosticsOnLine(n.range.start.line)
            IN  /\ n.type = "block" => onLine = <<>>
                /\ (n.type = "key-value-pair" /\ Len(AllNodes[i].path) >= 2)
                       => Messages(onLine) = PairMessages(n)
        /\ lines = NestedPairsText =>
            /\ Messages(diagnostics) = <<"MISSING_VALUE">>
            /\ diagnostics[1].range.start.line = 1

\* C3: a non-blank line in a block's child region is classified with the
\* simple-array, block and key-value rules of a top-level line; "k:",
\* "  items[2]: a,b", "  c: 1" parses to one Block k whose children are a
\* SimpleArray items and a KeyValuePair c.
C3_BlockChildrenClassifiedAsTopLevel ==
    pc = "parsed" =>
        /\ \A i \in 1..Len(AllNodes) :
            LET b == AllNodes[i].node
            IN  b.type = "block" =>
                    \A l \in (b.range.start.line + 1)..b.range.end.line :
                        tryParseSimpleArray(lines[l + 1], l).kind = "node" =>
                            \E j \in 1..Len(AllNodes) :
                                /\ AllNodes[j].node.type = "simple-array"
                                /\ AllNodes[j].node.range.start.line = l
                                /\ IsPrefix(AllNodes[i].path, AllNodes[j].path)
        /\ lines = ArrayInBlockText =>
            /\ Len(ast.children) = 1
            /\ ast.children[1].type = "block"
            /\ ast.children[1].key = <<"k">>
            /\ Len(ast.children[1].children) = 2
            /\ ast.children[1].children[1].type = "simple-array"
            /\ ast.children[1].children[1].name = <<"i", "t", "e", "m", "s">>
            /\ ast.children[1].children[2].type = "key-value-pair"
            /\ ast.children[1].children[2].key = <<"c">>

\* C4: for every input text Toon.parse returns a Document and does not
\* throw; a line that matches no pattern becomes an Empty node.
C4_ParseNeverThrows ==
    /\ pc # "error"
    /\ pc \in {"parsed", "walked"} =>
        /\ ast.type = "document"
        /\ ast = parse(lines)
    /\ \A i \in 1..Len(children) :
        LET line == lines[consumed[i].line + 1]
        IN  (indexOf(line, <<":">>, 0) = -1 /\ ~matchArrayPrefix(line).ok)
                => children[i].type = "empty"

\* A text with a malformed line -- non-blank, matching no pattern -- has been
\* parsed to a document that holds an Empty node for it.
C4_Witness ==
    /\ pc = "parsed"
    /\ \E i \in 1..Len(ast.children) :
        /\ ast.children[i].type = "empty"
        /\ trim(LineOf(ast.children[i])) # <<>>

\* The parts of a line around its first colon.
HasPairShape(line) ==
    LET colonIndex == indexOf(line, <<":">>, 0)
        bracketIndex == indexOf(line, <<"[">>, 0)
    IN  colonIndex # -1 /\ ~(bracketIndex # -1 /\ bracketIndex < colonIndex)

ValueAfterColon(line) == trim(substringFrom(line, indexOf(line, <<":">>, 0) + 1))

\* Whether line l is followed by a non-blank, strictly more indented line.
HasIndentedFollower(l) ==
    /\ l + 1 < Len(lines)
    /\ trim(lines[l + 2]) # <<>>
    /\ getIndentLevel(lines[l + 2]) > getIndentLevel(lines[l + 1])

\* C5: a line is a Block only if its value after the first colon is empty and
\* the next line is non-blank and strictly more indented; "k: v" is a
\* KeyValuePair even when more-indented lines follow, and "k:" followed by the
\* end of input, a blank line or a line not more indented is a KeyValuePair
\* with an empty value.
C5_BlockOnlyWithEmptyValueAndIndentedFollower ==
    /\ \A i \in 1..Len(AllNodes) :
        LET n == AllNodes[i].node
        IN  n.type = "block" =>
                /\ HasPairShape(LineOf(n))
                /\ ValueAfterColon(LineOf(n)) = <<>>
                /\ HasIndentedFollower(n.range.start.line)
    /\ \A i \in 1..Len(children) :
        LET l == consumed[i].line
            line == lines[l + 1]
        IN  /\ (HasPairShape(line) /\ ValueAfterColon(line) # <<>>)
                => /\ children[i].type = "key-value-pair"
                   /\ children[i].value = ValueAfterColon(line)
            /\ (HasPairShape(line) /\ ValueAfterColon(line) = <<>>
                    /\ ~HasIndentedFollower(l))
                => /\ children[i].type = "key-value-pair"
                   /\ children[i].value = <<>>

\* A pair with a value and a more-indented follower, and a pair with an empty
\* value and no indented follower, have both been parsed at top level.
C5_Witness ==
    /\ pc = "parsed"
    /\ \E i \in 1..Len(children) :
        /\ children[i].type = "key-value-pair"
        /\ children[i].value # <<>>
        /\ HasIndentedFollower(consumed[i].line)
    /\ \E i \in 1..Len(children) :
        /\ children[i].type = "key-value-pair"
        /\ children[i].value = <<>>
        /\ children[i].key # <<>>
        /\ consumed[i].line + 1 < Len(lines)

IsIdentifier(str) ==
    /\ Len(str) >= 1
    /\ str[1] \in IdentStart
    /\ \A i \in 2..Len(str) : str[i] \in IdentChar

\* Whether the text is "k:" followed by n >= 1 lines "  ci: vi".
IsP1Text(text) ==
    /\ Len(text) >= 2
    /\ \E key \in P1Keys : text[1] = P1Header(key)
    /\ \A i \in 2..Len(text) :
        \E ck \in P1Keys, cv \in P1Values : text[i] = P1Line(ck, cv)

\* C6: "k:" followed by n >= 1 lines "  ci: vi" (identifier keys, non-empty
\* values) parses to a Document with exactly one Block, of key k, whose
\* children are exactly the n KeyValuePairs ci: vi in source order.
C6_BlockFormation ==
    (pc = "parsed" /\ IsP1Text(lines)) =>
        /\ Len(ast.children) = 1
        /\ ast.children[1].type = "block"
        /\ P1Header(ast.children[1].key) = lines[1]
        /\ IsIdentifier(ast.children[1].key)
        /\ Len(ast.children[1].children) = Len(lines) - 1
        /\ \A i \in 1..(Len(lines) - 1) :
            LET child == ast.children[1].children[i]
            IN  /\ child.type = "key-value-pair"
                /\ IsIdentifier(child.key)
                /\ child.value # <<>>
                /\ child.value = trim(child.value)
                /\ P1Line(child.key, child.value) = lines[i + 1]

\* A block-formation text with three different child lines has been parsed.
C6_Witness ==
    /\ pc = "parsed"
    /\ IsP1Text(lines)
    /\ Len(lines) = 4
    /\ lines[2] # lines[3]
    /\ lines[3] # lines[4]
    /\ Len(ast.children[1].children) = 3

IsBlank(line) == trim(line) = <<>>

\* The blocks of the tree, as indices into AllNodes.
Blocks == {i \in 1..Len(AllNodes) : AllNodes[i].node.type = "block"}

\* C7: every Block of a parsed tree, top-level or nested, has at least one
\* child, and every child's line is indented strictly more than the header.
C7_BlockHasIndentedChildren ==
    \A i \in Blocks :
        LET b == AllNodes[i].node
        IN  /\ Len(b.children) >= 1
            /\ \A k \in 1..Len(b.children) :
                getIndentLevel(LineOf(b.children[k])) > getIndentLevel(LineOf(b))

\* A nested Block -- a Block that is the child of a Block -- has been parsed.
C7_Witness ==
    /\ pc = "parsed"
    /\ \E i \in Blocks : Len(AllNodes[i].path) = 2

\* C8: the range.end of every Block, nested Blocks and Blocks whose last
\* child is a Block included, equals the range.end of its last child.
C8_BlockRangeEndsAtLastChild ==
    \A i \in Blocks :
        LET b == AllNodes[i].node
        IN  b.range.end = b.children[Len(b.children)].range.end

\* A Block with several children whose last child is a Block has been parsed.
C8_Witness ==
    /\ pc = "parsed"
    /\ \E i \in Blocks :
        LET b == AllNodes[i].node
        IN  /\ Len(b.children) >= 2
            /\ b.children[Len(b.children)].type = "block"
            /\ b.range.end.line > b.children[1].range.end.line

\* Whether a "[" occurs before the first colon of a line.
BracketBeforeColon(line) ==
    LET colonIndex == indexOf(line, <<":">>, 0)
        bracketIndex == indexOf(line, <<"[">>, 0)
    IN  colonIndex # -1 /\ bracketIndex # -1 /\ bracketIndex < colonIndex

\* The first line after the header at l that is non-blank and less indented
\* than the block's first child; the number of lines when there is none.
BlockStop(l) ==
    LET childIndent == getIndentLevel(lines[l + 2])
        stops == {t \in (l + 1)..(Len(lines) - 1) :
                     ~IsBlank(lines[t + 1]) /\ getIndentLevel(lines[t + 1]) < childIndent}
    IN  IF stops = {} THEN Len(lines) ELSE Min(stops)

RowRun(l) ==
    LET ends == {t \in (l + 1)..(Len(lines) - 1) :
                    IsBlank(lines[t + 1]) \/ lines[t + 1][1] \notin Whitespace}
    IN  (IF ends = {} THEN Len(lines) ELSE Min(ends)) - (l + 1)

\* C10: the data rows of a structured array are exactly the maximal run of
\* immediately following lines that are non-blank and begin with whitespace,
\* one DataRow per line in order; the array consumes 1 + dataRows.length
\* lines, and the first blank or non-indented line after it is parsed as an
\* independent top-level line.
C10_StructuredArrayRows ==
    \A i \in 1..Len(children) :
        children[i].type = "structured-array" =>
            LET l == consumed[i].line
                rows == children[i].dataRows
            IN  /\ Len(rows) = RowRun(l)
                /\ \A k \in 1..Len(rows) :
                    /\ rows[k].type = "data-row"
                    /\ rows[k].range.start.line = l + k
                    /\ Len(rows[k].values) = Len(split(trim(lines[l + k + 1]), ","))
                /\ consumed[i].linesConsumed = 1 + Len(rows)
                /\ children[i].range.end.line = l + Len(rows)
                /\ i < Len(children) =>
                    /\ consumed[i + 1].line = l + 1 + RowRun(l)
                    /\ children[i + 1].range.start.line = l + 1 + RowRun(l)
                /\ (pc = "parsed" /\ l + 1 + RowRun(l) < Len(lines)) => i < Len(children)

\* A structured array with two data rows has been parsed, and the indented
\* line after the blank line that ended its rows is a top-level node of its
\* own.
C10_Witness ==
    /\ pc = "parsed"
    /\ Len(children) = 3
    /\ children[1].type = "structured-array"
    /\ Len(children[1].dataRows) = 2
    /\ IsBlank(LineOf(children[2]))
    /\ consumed[3].line = 4
    /\ ~IsBlank(LineOf(children[3]))
    /\ getIndentLevel(LineOf(children[3])) > 0

\* C11: a line with a "[" before its first colon is never a KeyValuePair or a
\* Block, at top level or inside a block: at top level it becomes a
\* StructuredArray, a SimpleArray or an Empty node, and in the child region of
\* a block it yields no pair and no block.
C11_BracketBeforeColonNeverPairOrBlock ==
    /\ \A i \in 1..Len(AllNodes) :
        LET n == AllNodes[i].node
        IN  n.type \in {"key-value-pair", "block"} => ~BracketBeforeColon(LineOf(n))
    /\ \A i \in 1..Len(children) :
        BracketBeforeColon(lines[consumed[i].line + 1])
            => children[i].type \in {"structured-array", "simple-array", "empty"}

\* A line with a bracket before the colon, nothing after the colon and a more
\* indented line after it -- a block header but for the bracket -- has become
\* an Empty node at top level.
C11_Witness ==
    /\ pc = "parsed"
    /\ \E i \in 1..Len(children) :
        /\ children[i].type = "empty"
        /\ BracketBeforeColon(lines[consumed[i].line + 1])
        /\ ValueAfterColon(lines[consumed[i].line + 1]) = <<>>
        /\ HasIndentedFollower(consumed[i].line)

\* The characters a range covers on its line; NoText, which is no sequence of
\* characters, for a range that spans lines or leaves its line.
NoText == <<"no text">>

RangeText(range) ==
    IF /\ range.start.line = range.end.line
       /\ range.start.line >= 0 /\ range.start.line < Len(lines)
       /\ 0 <= range.start.character
       /\ range.start.character <= range.end.character
       /\ range.end.character <= Len(lines[range.start.line + 1])
    THEN substring(lines[range.start.line + 1], range.start.character,
                   range.end.character)
    ELSE NoText

IsDigits(str) == Len(str) >= 1 /\ \A i \in 1..Len(str) : str[i] \in Digits

\* C12: for every token of a parsed tree -- key and value of a KeyValuePair,
\* key of a Block, name and size of an array, each Field, each Value of a
\* SimpleArray or DataRow -- the characters of its line from the range start
\* to the range end are exactly the token's text, also when the same text
\* occurs elsewhere on the line.
C12_TokenRangesCoverTokenText ==
    \A i \in 1..Len(AllNodes) :
        LET n == AllNodes[i].node
        IN  /\ n.type = "key-value-pair" =>
                /\ RangeText(n.keyRange) = n.key
                /\ RangeText(n.valueRange) = n.value
                /\ n.keyRange.start.line = n.range.start.line
                /\ n.valueRange.start.line = n.range.start.line
            /\ n.type = "block" =>
                /\ RangeText(n.keyRange) = n.key
                /\ n.keyRange.start.line = n.range.start.line
            /\ n.type \in {"simple-array", "structured-array"} =>
                /\ RangeText(n.nameRange) = n.name
                /\ n.nameRange.start.line = n.range.start.line
                /\ n.sizeRange.start.line = n.range.start.line
                /\ IsDigits(RangeText(n.sizeRange))
                /\ parseInt(RangeText(n.sizeRange)) = n.declaredSize
            /\ n.type = "field" => RangeText(n.range) = n.name
            /\ n.type = "value" => RangeText(n.range) = n.value

\* A tree with a pair whose value equals its key, and with an array or a data
\* row whose later value repeats an earlier one, has been parsed.
C12_Witness ==
    /\ pc = "parsed"
    /\ \E i \in 1..Len(AllNodes) :
        /\ AllNodes[i].node.type = "key-value-pair"
        /\ AllNodes[i].node.key = AllNodes[i].node.value
    /\ \E i \in 1..Len(AllNodes) :
        LET n == AllNodes[i].node
        IN  /\ n.type \in {"simple-array", "data-row"}
            /\ Len(n.values) >= 3
            /\ n.values[1].value = n.values[3].value
            /\ n.values[1].range # n.values[3].range

\* The node of the tree at a path.
NodeAt(path) ==
    AllNodes[CHOOSE j \in 1..Len(AllNodes) : AllNodes[j].path = path].node

\* Whether following parent references from a node reaches the Document in
\* at most the given number of steps.
RECURSIVE ReachesDocument(_, _)
ReachesDocument(node, steps) ==
    IF node.type = "document" THEN TRUE
    ELSE IF steps = 0 \/ "parent" \notin DOMAIN node THEN FALSE
    ELSE \E j \in 1..Len(AllNodes) :
            /\ NodeRef(AllNodes[j].node) = node.parent
            /\ ReachesDocument(AllNodes[j].node, steps - 1)

\* C13: in every tree parse returns the Document has no parent, every other
\* node's parent is the node whose children, values, fields or dataRows
\* holds it, and following parent links from any node reaches the Document.
C13_ParentIsOwner ==
    pc = "parsed" =>
        /\ "parent" \notin DOMAIN ast
        /\ \A i, j \in 1..Len(AllNodes) :
            i # j => NodeRef(AllNodes[i].node) # NodeRef(AllNodes[j].node)
        /\ \A i \in 2..Len(AllNodes) :
            LET n == AllNodes[i].node
                p == AllNodes[i].path
            IN  /\ "parent" \in DOMAIN n
                /\ n.parent = NodeRef(NodeAt(SubSeq(p, 1, Len(p) - 1)))
                /\ ReachesDocument(n, Len(p))

\* A tree with a pair inside a Block inside a Block has been parsed.
C13_Witness ==
    /\ pc = "parsed"
    /\ \E i \in 1..Len(AllNodes) :
        LET p == AllNodes[i].path
        IN  /\ Len(p) = 3
            /\ AllNodes[i].node.type = "key-value-pair"
            /\ NodeAt(SubSeq(p, 1, 2)).type = "block"
            /\ NodeAt(SubSeq(p, 1, 1)).type = "block"

\* The position of the visit of the node at a path in the walk; 0 when the
\* walk made none.
VisitIndex(path) ==
    IF \E k \in 1..Len(visited) : visited[k].path = path
    THEN CHOOSE k \in 1..Len(visited) : visited[k].path = path
    ELSE 0

\* C14: the walker visits the nodes of the tree in depth-first pre-order:
\* every node before its descendants, siblings in sequence order, the Fields
\* of a StructuredArray before its DataRows, a DataRow before its Values.
\* AllNodes lists the tree in that order.
C14_WalkIsPreOrder ==
    pc = "walked" =>
        \A i, j \in 1..Len(AllNodes) :
            i < j =>
                /\ VisitIndex(AllNodes[i].path) # 0
                /\ VisitIndex(AllNodes[j].path) # 0
                /\ VisitIndex(AllNodes[i].path) < VisitIndex(AllNodes[j].path)

\* The diagnostics with one message.
WithMessage(diags, message) == SelectSeq(diags, LAMBDA d : d.message = message)

\* C15: for each visited KeyValuePair the validator emits a missing-key error
\* iff the key is empty and a missing-value error iff the value is empty,
\* each at most once and independently of the other: ": v" gives one
\* missing-key and no missing-value diagnostic, "k:" without an indented
\* follower one missing-value diagnostic, and ":" both.
C15_PairDiagnostics ==
    pc = "walked" =>
        /\ \A k \in 1..Len(dispatched) :
            LET n == dispatched[k].node
                onLine == DiagnosticsOnLine(n.range.start.line)
            IN  dispatched[k].method = "visitKeyValuePair" =>
                    /\ Len(WithMessage(onLine, "MISSING_KEY"))
                           = (IF n.key = <<>> THEN 1 ELSE 0)
                    /\ Len(WithMessage(onLine, "MISSING_VALUE"))
                           = (IF n.value = <<>> THEN 1 ELSE 0)
                    /\ Len(onLine) = Len(WithMessage(onLine, "MISSING_KEY"))
                                        + Len(WithMessage(onLine, "MISSING_VALUE"))
                    /\ \A d \in 1..Len(onLine) :
                        /\ onLine[d].severity = "error"
                        /\ onLine[d].range = IF onLine[d].message = "MISSING_KEY"
                                              THEN n.keyRange ELSE n.valueRange
        /\ \A l \in 1..Len(lines) :
            LET onLine == Messages(DiagnosticsOnLine(l - 1))
            IN  /\ lines[l] = <<":", " ", "v">> => onLine = <<"MISSING_KEY">>
                /\ (lines[l] = <<"b", ":">> /\ ~HasIndentedFollower(l - 1))
                       => onLine = <<"MISSING_VALUE">>
                /\ lines[l] = <<":">> => onLine = <<"MISSING_KEY", "MISSING_VALUE">>

\* The text ":" followed by ": v" and "b:" has been validated, with four
\* diagnostics.
C15_Witness ==
    /\ pc = "walked"
    /\ lines = << <<":">>, <<":", " ", "v">>, <<"b", ":">> >>
    /\ Len(diagnostics) = 4

\* The messages of diagnostics with the numbers substituted into them.
MessagesWithArgs(diags) ==
    [j \in 1..Len(diags) |-> <<diags[j].message, diags[j].args>>]

\* C16: for each SimpleArray the validator emits exactly one error when the
\* number of values differs from declaredSize -- the insufficient message
\* for fewer values, the exceeded message for more, with the declared and
\* the actual number substituted -- and no diagnostic when they are equal.
C16_SimpleArrayDiagnostics ==
    pc = "walked" =>
        /\ \A k \in 1..Len(dispatched) :
            LET n == dispatched[k].node
                onLine == DiagnosticsOnLine(n.range.start.line)
                actual == Len(n.values)
                lineValues == split(substringFrom(LineOf(n),
                                                  indexOf(LineOf(n), <<":">>, 0) + 1), ",")
            IN  dispatched[k].method = "visitSimpleArray" =>
                    /\ n.declaredSize = parseInt(RangeText(n.sizeRange))
                    /\ actual = (IF trim(substringFrom(LineOf(n),
                                         indexOf(LineOf(n), <<":">>, 0) + 1)) = <<>>
                                 THEN 0 ELSE Len(lineValues))
                    /\ actual = n.declaredSize => onLine = <<>>
                    /\ actual < n.declaredSize =>
                           /\ MessagesWithArgs(onLine) =
                                  << <<"ARRAY_SIZE_INSUFFICIENT", <<n.declaredSize, actual>> >> >>
                           /\ onLine[1].severity = "error"
                    /\ actual > n.declaredSize =>
                           /\ MessagesWithArgs(onLine) =
                                  << <<"ARRAY_SIZE_EXCEEDED", <<n.declaredSize, actual>> >> >>
                           /\ onLine[1].severity = "error"
        /\ lines = FriendsEqualText => diagnostics = <<>>
        /\ lines = FriendsExceededText =>
               MessagesWithArgs(diagnostics) = << <<"ARRAY_SIZE_EXCEEDED", <<2, 3>> >> >>
        /\ lines = FriendsInsufficientText =>
               MessagesWithArgs(diagnostics) = << <<"ARRAY_SIZE_INSUFFICIENT", <<4, 3>> >> >>

\* A text with a simple array of more values than declared and one of fewer
\* values than declared has been validated.
C16_Witness ==
    /\ pc = "walked"
    /\ \E d \in 1..Len(diagnostics) : diagnostics[d].message = "ARRAY_SIZE_EXCEEDED"
    /\ \E d \in 1..Len(diagnostics) : diagnostics[d].message = "ARRAY_SIZE_INSUFFICIENT"
    /\ \E k \in 1..Len(dispatched) :
        /\ dispatched[k].method = "visitSimpleArray"
        /\ DiagnosticsOnLine(dispatched[k].node.range.start.line) = <<>>

\* C17: for each StructuredArray the validator emits exactly one row-count
\* error iff dataRows.length differs from declaredSize, and the range of that
\* diagnostic is the array's sizeRange -- the digits inside the brackets --
\* not the whole line.
C17_RowCountDiagnostic ==
    pc = "walked" =>
        \A k \in 1..Len(dispatched) :
            LET n == dispatched[k].node
                rowCount == SelectSeq(diagnostics,
                                      LAMBDA d : /\ d.message = "ARRAY_ROWS_MISMATCH"
                                                 /\ d.range.start.line = n.range.start.line)
            IN  dispatched[k].method = "visitStructuredArray" =>
                    /\ Len(rowCount) = (IF Len(n.dataRows) # n.declaredSize THEN 1 ELSE 0)
                    /\ \A d \in 1..Len(rowCount) :
                        /\ rowCount[d].severity = "error"
                        /\ rowCount[d].args = <<n.declaredSize, Len(n.dataRows)>>
                        /\ rowCount[d].range = n.sizeRange
                        /\ rowCount[d].range # n.range
                        /\ IsDigits(RangeText(rowCount[d].range))
                        /\ charAt(LineOf(n), rowCount[d].range.start.character - 1) = "["
                        /\ charAt(LineOf(n), rowCount[d].range.end.character) = "]"
                    /\ DiagnosticsOnLine(n.range.start.line) = rowCount

\* A text with a structured array of fewer rows than declared and one of as
\* many rows as declared has been validated.
C17_Witness ==
    /\ pc = "walked"
    /\ \E k \in 1..Len(dispatched) :
        /\ dispatched[k].method = "visitStructuredArray"
        /\ Len(dispatched[k].node.dataRows) < dispatched[k].node.declaredSize
        /\ Len(DiagnosticsOnLine(dispatched[k].node.range.start.line)) = 1
    /\ \E k \in 1..Len(dispatched) :
        /\ dispatched[k].method = "visitStructuredArray"
        /\ Len(dispatched[k].node.dataRows) = dispatched[k].node.declaredSize
        /\ Len(dispatched[k].node.dataRows) > 0

\* C18: for each DataRow of a StructuredArray the validator emits exactly
\* one error iff the row's value count differs from fields.length --
\* insufficient for fewer, exceeded for more -- at the row's own range and
\* whatever the row-count check found, so k offending rows give k
\* diagnostics; the hikes document gives insufficient (3, 2) for row 1,
\* exceeded (3, 4) for row 2 and no row-count diagnostic.
C18_DataRowDiagnostics ==
    pc = "walked" =>
        /\ \A k \in 1..Len(dispatched) :
            LET n == dispatched[k].node
                expected == Len(n.fields)
            IN  dispatched[k].method = "visitStructuredArray" =>
                    \A r \in 1..Len(n.dataRows) :
                        LET row == n.dataRows[r]
                            actual == Len(row.values)
                            onLine == DiagnosticsOnLine(row.range.start.line)
                        IN  /\ actual = expected => onLine = <<>>
                            /\ actual # expected =>
                                   /\ MessagesWithArgs(onLine) =
                                          << << IF actual < expected
                                                THEN "FIELD_COUNT_INSUFFICIENT"
                                                ELSE "FIELD_COUNT_EXCEEDED",
                                                <<expected, actual>> >> >>
                                   /\ onLine[1].severity = "error"
                                   /\ onLine[1].range = row.range
        /\ lines = HikesFieldMismatchText =>
               /\ MessagesWithArgs(diagnostics) =
                      << <<"FIELD_COUNT_INSUFFICIENT", <<3, 2>> >>,
                         <<"FIELD_COUNT_EXCEEDED", <<3, 4>> >> >>
               /\ diagnostics[1].range.start.line = 1
               /\ diagnostics[2].range.start.line = 2

\* A structured array with two offending rows and a wrong number of rows has
\* been validated: one row-count diagnostic and one for each row.
C18_Witness ==
    /\ pc = "walked"
    /\ \E k \in 1..Len(dispatched) :
        LET n == dispatched[k].node
        IN  /\ dispatched[k].method = "visitStructuredArray"
            /\ Len(n.dataRows) = 2
            /\ n.declaredSize # 2
            /\ Len(n.dataRows[1].values) < Len(n.fields)
            /\ Len(n.dataRows[2].values) > Len(n.fields)
            /\ Len(diagnostics) = 3

\* The visits of the nodes the validator has a method for.
ValidatedVisits ==
    {k \in 1..Len(visited) :
        visited[k].method \in {"visitKeyValuePair", "visitSimpleArray",
                               "visitStructuredArray"}}

\* The position in the walk of the node a diagnostic is about: the validated
\* node whose lines hold the diagnostic's range; 0 when there is none.
Origin(d) ==
    LET holds(k) == /\ visited[k].node.range.start.line <= d.range.start.line
                    /\ d.range.start.line <= visited[k].node.range.end.line
    IN  IF \E k \in ValidatedVisits : holds(k)
        THEN CHOOSE k \in ValidatedVisits : holds(k)
        ELSE 0

\* C19: the diagnostics are in traversal order: those of a node earlier in
\* the walk precede those of later nodes, the row-count diagnostic of a
\* StructuredArray precedes the diagnostics of its rows, and the row
\* diagnostics are in row order.
C19_DiagnosticsInTraversalOrder ==
    pc = "walked" =>
        /\ \A a \in 1..Len(diagnostics) : Origin(diagnostics[a]) # 0
        /\ \A a, b \in 1..Len(diagnostics) :
            a < b =>
                /\ Origin(diagnostics[a]) <= Origin(diagnostics[b])
                /\ (/\ Origin(diagnostics[a]) = Origin(diagnostics[b])
                    /\ visited[Origin(diagnostics[a])].method = "visitStructuredArray")
                       => /\ diagnostics[b].message # "ARRAY_ROWS_MISMATCH"
                          /\ diagnostics[a].message # "ARRAY_ROWS_MISMATCH"
                                 => diagnostics[a].range.start.line
                                        < diagnostics[b].range.start.line

\* A pair with a diagnostic, followed by a structured array with a row-count
\* diagnostic and a row diagnostic, has been validated.
C19_Witness ==
    /\ pc = "walked"
    /\ Len(diagnostics) = 3
    /\ Origin(diagnostics[1]) # 0
    /\ Origin(diagnostics[1]) < Origin(diagnostics[2])
    /\ visited[Origin(diagnostics[1])].method = "visitKeyValuePair"
    /\ diagnostics[2].message = "ARRAY_ROWS_MISMATCH"
    /\ diagnostics[3].message \in {"FIELD_COUNT_INSUFFICIENT", "FIELD_COUNT_EXCEEDED"}

\* Whether the hover position lies inside a cell: on its line, at or after
\* its first character and before the end of its last.
InsideCell(cell) ==
    /\ position.line = cell.range.start.line
    /\ cell.range.start.character <= position.character
    /\ position.character < cell.range.end.character

\* C20: a hover at a position inside cell i of a data row of a
\* StructuredArray returns a hover that names fields[i] and has the cell's
\* range iff i < fields.length, and no result when i >= fields.length, even
\* though the row has that cell.  (Cells and fields count from 1 here.)
C20_HoverCellBound ==
    position # NoPosition =>
        \A k \in 1..Len(ast.children) :
            LET n == ast.children[k]
            IN  n.type = "structured-array" =>
                    \A r \in 1..Len(n.dataRows) :
                        \A c \in 1..Len(n.dataRows[r].values) :
                            LET cell == n.dataRows[r].values[c]
                            IN  InsideCell(cell) =>
                                    IF c <= Len(n.fields)
                                    THEN /\ hover.kind = "hover"
                                         /\ hover.range = cell.range
                                         /\ hover.contents[1] = "Field"
                                         /\ hover.contents[2] = n.fields[c].name
                                         /\ hover.contents[4] = cell.value
                                    ELSE hover = NoHover

\* A hover inside the third cell of a data row of an array of two fields has
\* returned no result.
C20_Witness ==
    /\ position # NoPosition
    /\ hover = NoHover
    /\ \E k \in 1..Len(ast.children) :
        LET n == ast.children[k]
        IN  /\ n.type = "structured-array"
            /\ \E r \in 1..Len(n.dataRows) :
                /\ Len(n.dataRows[r].values) = 3
                /\ Len(n.fields) = 2
                /\ InsideCell(n.dataRows[r].values[3])

\* The cells of the data rows of the structured arrays of the document that
\* hold the request position and have a field of their index, as
\* <<child, row, cell>> indices.
CellsWithFieldAtPosition ==
    UNION {UNION {{<<k, r, c>> :
                      c \in {c \in 1..Len(ast.children[k].dataRows[r].values) :
                                 /\ c <= Len(ast.children[k].fields)
                                 /\ InsideCell(ast.children[k].dataRows[r].values[c])}} :
                  r \in 1..Len(ast.children[k].dataRows)} :
           k \in {k \in 1..Len(ast.children) :
                      ast.children[k].type = "structured-array"}}

\* C21: a definition lookup returns a location iff the position is inside
\* cell i of a data row of a StructuredArray with i < fields.length, and the
\* location is then the range of fields[i], which lies on the header line;
\* at every other position (array names, field names, simple-array values,
\* key-value pairs, cells beyond the fields) it returns no result.
C21_DefinitionOnlyForCells ==
    position # NoPosition =>
        /\ (definition # NoDefinition) <=> (CellsWithFieldAtPosition # {})
        /\ \A krc \in CellsWithFieldAtPosition :
            LET n == ast.children[krc[1]]
            IN  /\ definition = LocationResult(n.fields[krc[3]].range)
                /\ definition.range.start.line = n.range.start.line
                /\ definition.range.end.line = n.range.start.line
                /\ RangeText(definition.range) = n.fields[krc[3]].name

\* A lookup inside the second cell of a data row has returned the second
\* field of the header.
C21_Witness ==
    /\ position # NoPosition
    /\ definition # NoDefinition
    /\ \E krc \in CellsWithFieldAtPosition : krc[3] = 2

\* The visits the walker dispatches to a visitor of the document.
DispatchedVisits == SelectSeq(walk(ast), LAMBDA v : v.method # "none")

\* The visits whose node, visited alone, gives the provider a result at the
\* request position: the matching nodes, by their index in traversal order.
HoverMatches ==
    {i \in 1..Len(DispatchedVisits) :
        hoverVisit(NoHover, DispatchedVisits[i], position) # NoHover}

DefinitionMatches ==
    {i \in 1..Len(DispatchedVisits) :
        definitionVisit(NoDefinition, DispatchedVisits[i], position) # NoDefinition}

RECURSIVE Content(_)
RECURSIVE Contents(_)
Content(node) ==
    [type |-> node.type,
     key |-> IF node.type \in {"key-value-pair", "block"} THEN node.key ELSE <<>>,
     value |-> IF node.type = "key-value-pair" THEN node.value ELSE <<>>,
     name |-> IF node.type \in {"simple-array", "structured-array"} THEN node.name ELSE <<>>,
     declaredSize |-> IF node.type \in {"simple-array", "structured-array"}
                      THEN node.declaredSize ELSE 0,
     fields |-> IF node.type = "structured-array" THEN names(node.fields) ELSE <<>>,
     cells |-> IF node.type = "structured-array"
               THEN [r \in 1..Len(node.dataRows) |-> values(node.dataRows[r].values)]
               ELSE IF node.type = "simple-array" THEN <<values(node.values)>>
               ELSE <<>>,
     children |-> IF node.type \in {"document", "block"}
                  THEN Contents(node.children) ELSE <<>>]

Contents(nodes) ==
    IF Len(nodes) = 0 THEN <<>>
    ELSE IF nodes[1].type = "empty" THEN Contents(Tail(nodes))
    ELSE <<Content(nodes[1])>> \o Contents(Tail(nodes))

StructuralChars == {":", "[", "]", "{", "}", "\n"}

\* Whether a document holds only KeyValuePair, Block and Empty nodes, with
\* values free of structural characters.
OnlyPairsAndBlocks(document) ==
    LET nodes == treeNodes(document, <<>>)
    IN  \A k \in 1..Len(nodes) :
            LET n == nodes[k].node
            IN  /\ n.type \in {"document", "key-value-pair", "block", "empty"}
                /\ n.type = "key-value-pair" =>
                       \A i \in 1..Len(n.value) : n.value[i] \notin StructuralChars

\* C23: for a text whose parse holds only KeyValuePair, Block and Empty
\* nodes with values free of : [ ] { } and newline, the parse of the
\* serialized parse has the same keys, values and block nesting, in the same
\* order, as the parse of the text.
C23_RoundTripPairsAndBlocks ==
    (pc = "reparsed" /\ OnlyPairsAndBlocks(ast)) =>
        /\ reparsed # NoDocument
        /\ Content(reparsed) = Content(ast)

\* A text of nested blocks that is not written the way the serializer writes
\* it has gone through the round trip: a Block holds a Block that holds a
\* pair with a value.
C23_Witness ==
    /\ pc = "reparsed"
    /\ OnlyPairsAndBlocks(ast)
    /\ split(serialized, "\n") # lines
    /\ \E k \in 1..Len(ast.children) :
        /\ ast.children[k].type = "block"
        /\ \E j \in 1..Len(ast.children[k].children) :
            LET inner == ast.children[k].children[j]
            IN  /\ inner.type = "block"
                /\ \E i \in 1..Len(inner.children) :
                    /\ inner.children[i].type = "key-value-pair"
                    /\ Len(inner.children[i].value) > 0

\* C24: for every text, the parse of the serialized parse has the same
\* non-Empty nodes -- types, nesting, order, key, value, name, declaredSize,
\* field names and cell values -- as the parse of the text.
C24_RoundTripEveryText ==
    pc = "reparsed" =>
        /\ reparsed # NoDocument
        /\ Content(reparsed) = Content(ast)

\* The names of the events emitted so far.
EventNamesEmitted == [i \in 1..Len(events) |-> events[i].name]

\* C25: a call of parse emits parse:start once, before any other event, and
\* then one terminal event: parse:complete when the call returns a Document,
\* parse:error, once and with the range (0,0)-(0,0), when the call throws;
\* never both, whatever the registered listeners do.
C25_OneStartOneTerminalEvent ==
    /\ pc = "called" => events = <<>>
    /\ pc = "parsing" => EventNamesEmitted = <<"parse:start">>
    /\ pc = "parsed" => EventNamesEmitted = <<"parse:start", "parse:complete">>
    /\ pc = "error" =>
           /\ EventNamesEmitted = <<"parse:start", "parse:error">>
           /\ events[2].error.range = createRange(0, 0, 0, 0)

\* C26: when a validator throws during a diagnostic pass, the exception
\* does not leave validateTextDocument, the diagnostics already produced --
\* by the visits before the failure in the AST server, by the other
\* validators in the settings server -- are returned in their order, and
\* the error is not among the diagnostics.
C26_ValidatorFailureContained ==
    validation # NoValidation =>
        /\ validation.kind = "returned"
        /\ \A k \in 1..Len(validation.items) :
               validation.items[k].message # ParseErrorEvent.error.message
        /\ server = "ast" =>
               LET visits == validatorVisits(validation.text)
                   all == collectDiagnostics(visits, 1)
                   before == collectDiagnostics(SubSeq(visits, 1, validation.fault - 1), 1)
               IN  IF validation.fault = 0 THEN validation.items = all
                   ELSE /\ IsPrefix(before, validation.items)
                        /\ IsPrefix(validation.items, all)
        /\ server = "settings" =>
               LET returning == {i \in 1..Len(Validators) :
                                    validation.outcomes[i] = "returns"}
               IN  /\ Len(validation.items) = Cardinality(returning)
                   /\ \A i \in returning :
                          \E k \in 1..Len(validation.items) :
                              /\ validation.items[k] = validatorResult(i)[1]
                              /\ k = Cardinality({j \in returning : j <= i})

\* The validator of the AST server threw in its second visit and the
\* diagnostic of the first visit was returned.
C26_Witness ==
    /\ server = "ast"
    /\ validation # NoValidation
    /\ validation.fault = 2
    /\ Len(validation.items) = 1
    /\ validation.items[1].message = "ARRAY_SIZE_EXCEEDED"

\* C27: a hover or definition request handled after a content change is
\* answered from the AST parsed from the changed text, never from the AST of
\* an earlier version: the cache entry a request is answered from is the one
\* of the text the document has when the request is handled.
C27_AnsweredFromCurrentText ==
    answer.kind \in {"hover", "definition"} => answer.source = answer.text

\* C28: once the close of the document has been handled and every
\* validation started before it has finished, the cache has no entry for
\* the URI.
C28_NoEntryForClosedDocument ==
    (server # "none" /\ openDocument = 0 /\ pending = {}) => documentCache = NoEntry

\* ------------------------------------------------------------------------
\* Termination of Toon.parse
\* ------------------------------------------------------------------------

\* Toon.parse is one synchronous loop: once called it runs until its loop
\* ends or an exception leaves it.
TerminationNext == ParseLineStep \/ ParseComplete

\* Lines of the texts whose parse is followed to its end: a pair, a block
\* header, children and a nested header, a blank line, a structured-array
\* header and a data row.
TerminationLinePool ==
    { <<"a", ":", " ", "1">>,
      <<"b", ":">>,
      <<" ", " ", "a", ":", " ", "1">>,
      <<" ", " ", "b", ":">>,
      <<" ", " ", " ", " ", "a", ":", " ", "1">>,
      <<>>,
      <<"s", "[", "1", "]", "{", "f", ",", "g", "}", ":">>,
      <<" ", "x", ",", "y">> }

TerminationTexts == TextsOver(TerminationLinePool, MaxLines)

TerminationInit == Start(TerminationTexts)

\* The loop keeps running: weak fairness of both of its steps.  An iteration
\* is enabled exactly when the parse is inside its loop with the cursor
\* before the end of the text (parseLine always returns or throws, and both
\* outcomes change the state), and its fairness condition is written with
\* that guard in place of ENABLED <<ParseLineStep>>_vars.
TerminationFairness ==
    /\ WF_vars(ParseComplete)
    /\ \/ []<>(~(pc = "parsing" /\ lineIndex < Len(lines)))
       \/ []<><<ParseLineStep>>_vars

TerminationSpec ==
    TerminationInit /\ [][TerminationNext]_vars /\ TerminationFairness

\* The block indent levels a child loop of the text can run at.
BlockIndentLevels == {getIndentLevel(lines[k]) : k \in 1..Len(lines)}

\* A classification step at line lineNumber advanced the cursor by at least
\* one line and not beyond the end of the input, or threw.
Advances(result, lineNumber) ==
    \/ result.kind = "throw"
    \/ /\ result.kind = "node"
       /\ result.linesConsumed >= 1
       /\ lineNumber + result.linesConsumed <= Len(lines)

\* The data-row loop of a structured array header at line lineNumber consumes
\* the header and one line per row it collected.
DataRowsAdvance(lineNumber) ==
    LET counted(dataRows) ==
            /\ structuredLinesConsumed(dataRows) >= 1
            /\ structuredLinesConsumed(dataRows) = 1 + Len(dataRows)
            /\ lineNumber + structuredLinesConsumed(dataRows) <= Len(lines)
    IN  counted(parseDataRows(lines, lineNumber + 1))

\* C29: parse terminates on every input: each classification step, at top
\* level and inside blocks and structured arrays, consumes at least one line,
\* so the line cursor strictly increases until the end of input, the number
\* of top-level classification steps is at most the number of lines, and the
\* parse eventually ends (with a document or with an exception).
C29_ParseTerminates ==
    /\ [][(pc = "parsing" /\ pc' = "parsing")
              => (lineIndex < lineIndex' /\ lineIndex' <= Len(lines))]_vars
    /\ [](/\ Len(consumed) <= Len(lines)
          /\ \A k \in 1..Len(consumed) : consumed[k].linesConsumed >= 1
          /\ \A lineNumber \in 0..(Len(lines) - 1) :
                 /\ Advances(parseLine(lines[lineNumber + 1], lineNumber, lines),
                             lineNumber)
                 /\ DataRowsAdvance(lineNumber)
                 /\ \A blockIndentLevel \in BlockIndentLevels :
                        Advances(parseBlockChild(lines[lineNumber + 1], lineNumber,
                                                 lines, blockIndentLevel),
                                 lineNumber))
    /\ <>(pc \in {"parsed", "error"})

\* A parse ended with a document after a step that consumed several lines
\* at once, in fewer top-level steps than the text has lines.
C29_Witness ==
    /\ pc = "parsed"
    /\ Len(lines) = MaxLines
    /\ Len(consumed) < Len(lines)
    /\ \E k \in 1..Len(consumed) : consumed[k].linesConsumed >= 2
    /\ lineIndex = Len(lines)

\* ------------------------------------------------------------------------
\* Line coverage of the top-level nodes
\* ------------------------------------------------------------------------

\* The lines of the range of a node.
LinesOf(node) == node.range.start.line .. node.range.end.line

\* The top-level nodes whose range holds the line.
NodesAt(document, line) ==
    {k \in 1..Len(document.children) : line \in LinesOf(document.children[k])}

\* C30: the top-level children of a parsed document are in source order
\* with pairwise disjoint line ranges that together cover every input line:
\* each line of the text, blank lines included, lies within the range of
\* exactly one top-level node.
C30_TopLevelRangesPartitionLines ==
    pc = "parsed" =>
        /\ \A k \in 1..(Len(ast.children) - 1) :
               ast.children[k].range.end.line < ast.children[k + 1].range.start.line
        /\ \A line \in 0..(Len(lines) - 1) :
               Cardinality(NodesAt(ast, line)) = 1

====
